---- MODULE Spec2Model ----
(***************************************************************************)
(* Model of the model-loading and draw pipeline of the viewer:             *)
(*   include/model.h   Model (loadModel, processNode, processMesh,         *)
(*                     loadMaterialTextures, Draw), TextureFromFile        *)
(*   include/mesh.h    Texture, Mesh (constructor, setupMesh, Draw)        *)
(*   examples/modelLoading.cpp   main (model construction, placeModel,     *)
(*                     render loop)                                        *)
(*                                                                         *)
(* Numbers.  Floats are modelled by integers.  Colour / factor values are  *)
(* in thousandths (1000 = 1.0f).  Coordinates are integers; the inputs are *)
(* chosen so that every division the code performs is exact.              *)
(* Strings.  A texture path is a sequence of one-character strings, so     *)
(* that tolower and find can be computed as the code computes them.        *)
(***************************************************************************)
EXTENDS Integers, Sequences, FiniteSets, TLC

----------------------------------------------------------------------------
(* Bounds of the model *)

\* camera coordinates range over -MaxCam..MaxCam on the z axis
MaxCam == 1

----------------------------------------------------------------------------
(* Small helpers *)

Range(s) == {s[i] : i \in 1..Len(s)}

RECURSIVE SeqSum(_)
SeqSum(s) == IF s = <<>> THEN 0 ELSE Head(s) + SeqSum(Tail(s))

\* all sequences over S of length 0..n
SeqsUpTo(S, n) == UNION {[1..k -> S] : k \in 0..n}

----------------------------------------------------------------------------
(* glm::vec3 and the affine matrices the program builds *)

Vec3(x, y, z) == <<x, y, z>>
VAdd(a, b) == <<a[1] + b[1], a[2] + b[2], a[3] + b[3]>>
VSub(a, b) == <<a[1] - b[1], a[2] - b[2], a[3] - b[3]>>
VScale(k, a) == <<k * a[1], k * a[2], k * a[3]>>
VZero == <<0, 0, 0>>

\* A glm::mat4 of the form translate(t) * scale(s): p |-> s*p + t.  Every
\* matrix the modelled code builds (node transforms of the assets used,
\* placeModel, the draw-time offset) is of this form.
Mat(s, t) == [s |-> s, t |-> t]
MatIdentity == Mat(1, VZero)
\* a * b  (b applied first)
MatMul(a, b) == Mat(a.s * b.s, VAdd(VScale(a.s, b.t), a.t))
\* m * vec4(p, 1)
MatApply(m, p) == VAdd(VScale(m.s, p), m.t)

\* glm::length(a - b), kept as its square: the order of two lengths is the
\* order of their squares, and equal squares are equal lengths.
Length2(a) == a[1] * a[1] + a[2] * a[2] + a[3] * a[3]

----------------------------------------------------------------------------
(* Texture paths *)

PathA == <<"a">>
PathB == <<"b">>
PathGlass == <<"G", "l", "a", "s", "s">>
EmptyPath == <<>>

ToLower(c) ==
    CASE c = "G" -> "g"
      [] c = "A" -> "a"
      [] c = "T" -> "t"
      [] OTHER -> c

LowerCase(p) == [i \in 1..Len(p) |-> ToLower(p[i])]

\* p.find(k) != std::string::npos
Contains(p, k) ==
    \E i \in 1..(Len(p) - Len(k) + 1) :
        \A j \in 1..Len(k) : p[i + j - 1] = k[j]

KwGlass == <<"g", "l", "a", "s", "s">>
KwAlpha == <<"a", "l", "p", "h", "a">>
KwTransp == <<"t", "r", "a", "n", "s", "p">>

----------------------------------------------------------------------------
(* mesh.h: Texture *)

\* KHR_texture_transform values: offset, scale (vec2), rotation (scalar)
UVTransform(o, s, r) == [offset |-> o, scale |-> s, rotation |-> r]
\* struct UVTransform / struct Texture member defaults
UVIdentity == UVTransform(<<0, 0>>, <<1, 1>>, 0)

Texture(id, type, path, uv) ==
    [id |-> id, type |-> type, path |-> path,
     uvOffset |-> uv.offset, uvScale |-> uv.scale, uvRotation |-> uv.rotation]

----------------------------------------------------------------------------
(* model.h: TextureFromFile.                                               *)
(* ctx is the state an import mutates: the model's textures_loaded, the GL *)
(* name counters, the GL texture names generated for this model, the set   *)
(* of GL texture names that received image data, and the list of files     *)
(* handed to the decoder (stbi_load).  files is the set of paths of the    *)
(* asset's directory that decode successfully.                             *)

TextureFromFile(ctx, path, gamma, files) ==
    LET textureID == ctx.nextTex          \* glGenTextures(1, &textureID)
        data == path \in files            \* stbi_load(...) != NULL
    IN  [ctx |-> [ctx EXCEPT
                    !.nextTex = textureID + 1,
                    !.genTex = @ \cup {textureID},
                    !.stbiLoads = Append(@, path),
                    !.texImage = IF data
                                 THEN @ \cup {[id |-> textureID, gamma |-> gamma]}
                                 ELSE @,
                    !.loadErrors = IF data THEN @ ELSE Append(@, path)],
         id |-> textureID]

----------------------------------------------------------------------------
(* model.h: Model::loadMaterialTextures *)

\* index of the first registry entry whose path is str, 0 when there is none
RECURSIVE FindLoaded(_, _, _)
FindLoaded(loaded, str, j) ==
    IF j > Len(loaded) THEN 0
    ELSE IF loaded[j].path = str THEN j
    ELSE FindLoaded(loaded, str, j + 1)

RECURSIVE LoadMaterialTexturesFrom(_, _, _, _, _, _)
LoadMaterialTexturesFrom(ctx, slot, i, typeName, files, textures) ==
    IF i > Len(slot) THEN [ctx |-> ctx, textures |-> textures]
    ELSE
      LET str == slot[i]
          j == FindLoaded(ctx.textures_loaded, str, 1)
      IN  IF j # 0
          THEN LoadMaterialTexturesFrom(ctx, slot, i + 1, typeName, files,
                                        Append(textures, ctx.textures_loaded[j]))
          ELSE
            LET isGamma == (typeName = "texture_diffuse")
                r == TextureFromFile(ctx, str, isGamma, files)
                texture == Texture(r.id, typeName, str, UVIdentity)
            IN  LoadMaterialTexturesFrom(
                    [r.ctx EXCEPT !.textures_loaded = Append(@, texture)],
                    slot, i + 1, typeName, files, Append(textures, texture))

\* mat is the generic material: for each aiTextureType the paths it lists
LoadMaterialTextures(ctx, mat, type, typeName, files) ==
    LoadMaterialTexturesFrom(ctx, mat[type], 1, typeName, files, <<>>)

----------------------------------------------------------------------------
(* mesh.h: Mesh constructor and setupMesh *)

\* setupMesh: glGenVertexArrays(1, &VAO); glGenBuffers(1, &VBO);
\* glGenBuffers(1, &EBO).  Returns the new mesh and the advanced counters.
Mesh(ctx, vertices, textures, baseColorFactor, transparent, metallicFactor, roughnessFactor) ==
    [ctx |-> [ctx EXCEPT !.nextVAO = @ + 1, !.nextBuf = @ + 2],
     mesh |-> [vertices |-> vertices,
               textures |-> textures,
               baseColorFactor |-> baseColorFactor,
               transparent |-> transparent,
               metallicFactor |-> metallicFactor,
               roughnessFactor |-> roughnessFactor,
               centroid |-> VZero,              \* glm::vec3(0.0f)
               VAO |-> ctx.nextVAO,
               VBO |-> ctx.nextBuf,
               EBO |-> ctx.nextBuf + 1]]

----------------------------------------------------------------------------
(* model.h: Model::processMesh *)

\* vec4(1.0f) and 1.0f, in thousandths
DefaultBaseColor == <<1000, 1000, 1000, 1000>>
DefaultFactor == 1000
\* the 0.999f of the transparency heuristic, in thousandths
AlphaThreshold == 999

\* One of the three "ensure textures specified directly in glTF JSON are
\* loaded" blocks (baseColor, normal, metallicRoughness): ref is the image
\* index of the material, -1 when it has none; p carries ctx and the
\* mesh's texture list.
AttachImageRef(p, ref, gamma, typeName, tabs, files) ==
    IF ref >= 0 /\ ref < Len(tabs.imageUris)
    THEN IF /\ ~(\E k \in 1..Len(p.textures) :
                    p.textures[k].path = tabs.imageUris[ref + 1])
            /\ tabs.imageUris[ref + 1] # EmptyPath
         THEN LET r == TextureFromFile(p.ctx, tabs.imageUris[ref + 1], gamma, files)
                  uv == IF ref >= 0 /\ ref < Len(tabs.imageTransforms)
                        THEN tabs.imageTransforms[ref + 1]
                        ELSE UVIdentity
              IN  [ctx |-> r.ctx,
                   textures |-> Append(p.textures,
                                       Texture(r.id, typeName,
                                               tabs.imageUris[ref + 1], uv))]
         ELSE p
    ELSE p

\* the filename-keyword part of the transparency heuristic
PathSuggestsTransparency(path) ==
    LET p == LowerCase(path)
    IN  Contains(p, KwGlass) \/ Contains(p, KwAlpha) \/ Contains(p, KwTransp)

\* the environment of the run (input, never changes): what the build and
\* the machine decide, among it what default-initialized storage holds
VARIABLE env

\* glm::normalize of a vector along one axis
Sign(x) == IF x > 0 THEN 1 ELSE IF x < 0 THEN -1 ELSE 0
Normalize(v) == <<Sign(v[1]), Sign(v[2]), Sign(v[3])>>

\* normalMat = transpose(inverse(mat3(nodeTransform))) applied to a
\* direction and normalized: a uniform scale keeps or flips the direction.
\* normalMat stays the identity when the mesh has no normals.
NormalMat(mesh, nodeTransform) ==
    IF mesh.mNormals # <<>> /\ nodeTransform.s < 0 THEN -1 ELSE 1
TransformDirection(mesh, nodeTransform, d) ==
    Normalize(VScale(NormalMat(mesh, nodeTransform), d))

\* one pass of the vertex loop.  "Vertex vertex;" is default-initialized, so
\* a member the loop does not assign keeps what the storage held: uninit.
ImportVertex(uninit, mesh, nodeTransform, i) ==
    [Position |-> MatApply(nodeTransform, mesh.mVertices[i]),
     Normal |-> IF mesh.mNormals # <<>>
                THEN TransformDirection(mesh, nodeTransform, mesh.mNormals[1][i])
                ELSE uninit,
     TexCoords |-> IF mesh.mTextureCoords # <<>> THEN mesh.mTextureCoords[1][i]
                   ELSE <<0, 0>>,
     Tangent |-> IF mesh.mTextureCoords # <<>>
                 THEN TransformDirection(mesh, nodeTransform, mesh.mTangents[i])
                 ELSE uninit,
     Bitangent |-> IF mesh.mTextureCoords # <<>>
                   THEN TransformDirection(mesh, nodeTransform, mesh.mBitangents[i])
                   ELSE uninit]

\* nodeTransform * vec4(mVertices[i], 1) and the attributes of every vertex
BakeVertices(uninit, mesh, nodeTransform) ==
    [i \in 1..Len(mesh.mVertices) |-> ImportVertex(uninit, mesh, nodeTransform, i)]

\* mean of the vertex positions (zero for a mesh without vertices)
Centroid(vertices) ==
    IF vertices = <<>> THEN VZero
    ELSE LET n == Len(vertices)
             c(k) == SeqSum([i \in 1..n |-> vertices[i].Position[k]]) \div n
         IN  <<c(1), c(2), c(3)>>

\* textures.insert(textures.end(), maps.begin(), maps.end()) for the maps
\* one loadMaterialTextures call returned
InsertMaps(textures, loaded) ==
    [ctx |-> loaded.ctx, textures |-> textures \o loaded.textures]

\* one "N. xxx maps" step: load the textures of one type, append them
LoadMaps(p, material, type, typeName, files) ==
    InsertMaps(p.textures, LoadMaterialTextures(p.ctx, material, type, typeName, files))

\* steps 1-4: diffuse, specular, normal (aiTextureType_HEIGHT), height
\* (aiTextureType_AMBIENT) maps of the generic material
GenericTextures(ctx, material, files) ==
    LoadMaps(
      LoadMaps(
        LoadMaps(
          LoadMaps([ctx |-> ctx, textures |-> <<>>],
                   material, "DIFFUSE", "texture_diffuse", files),
          material, "SPECULAR", "texture_specular", files),
        material, "HEIGHT", "texture_normal", files),
      material, "AMBIENT", "texture_height", files)

\* struct MatRefs member defaults
NoRefs == [baseColor |-> -1, normal |-> -1, metallicRoughness |-> -1]

\* materialImageRefs[mMaterialIndex], when the index is in range
MaterialRefs(tabs, mi) ==
    IF mi >= 0 /\ mi < Len(tabs.materialImageRefs)
    THEN tabs.materialImageRefs[mi + 1]
    ELSE NoRefs

\* the three JSON image references of the material, in the order of the code
JsonTextures(p, refs, tabs, files) ==
    AttachImageRef(
      AttachImageRef(
        AttachImageRef(p, refs.baseColor, TRUE, "texture_diffuse", tabs, files),
        refs.normal, FALSE, "texture_normal", tabs, files),
      refs.metallicRoughness, FALSE, "texture_metallicRoughness", tabs, files)

\* the transparency heuristic
IsTransparent(textures, tabs, mi) ==
    \/ /\ mi >= 0 /\ mi < Len(tabs.materialBaseColorFactors)
       /\ tabs.materialBaseColorFactors[mi + 1][4] < AlphaThreshold
    \/ \E k \in 1..Len(textures) : PathSuggestsTransparency(textures[k].path)

\* m.centroid = centroid
SetCentroid(m, centroid) == [m EXCEPT !.mesh.centroid = centroid]

\* the tail of processMesh: factors, transparency, centroid, Mesh(...)
BuildMesh(p, vertices, tabs, mi) ==
    SetCentroid(
      Mesh(p.ctx, vertices, p.textures,
           IF mi >= 0 /\ mi < Len(tabs.materialBaseColorFactors)
           THEN tabs.materialBaseColorFactors[mi + 1] ELSE DefaultBaseColor,
           IsTransparent(p.textures, tabs, mi),
           IF mi >= 0 /\ mi < Len(tabs.materialMetallicFactors)
           THEN tabs.materialMetallicFactors[mi + 1] ELSE DefaultFactor,
           IF mi >= 0 /\ mi < Len(tabs.materialRoughnessFactors)
           THEN tabs.materialRoughnessFactors[mi + 1] ELSE DefaultFactor),
      Centroid(vertices))

\* mesh is the aiMesh, mMaterials the scene's generic materials, tabs the
\* tables loadModel parsed from the material JSON
ProcessMesh(ctx, tabs, mesh, mMaterials, nodeTransform, files) ==
    BuildMesh(
      JsonTextures(
        GenericTextures(ctx, mMaterials[mesh.mMaterialIndex + 1], files),
        MaterialRefs(tabs, mesh.mMaterialIndex), tabs, files),
      BakeVertices(env.uninit, mesh, nodeTransform), tabs, mesh.mMaterialIndex)

----------------------------------------------------------------------------
(* model.h: Model::processNode.  nodes is the scene's node table (index 1  *)
(* is mRootNode); the result carries the meshes appended so far.           *)

RECURSIVE ProcessNode(_, _, _, _, _, _)
RECURSIVE ProcessNodeMeshes(_, _, _, _, _, _, _)
RECURSIVE ProcessNodeChildren(_, _, _, _, _, _, _)

\* (variant: the new mesh goes to the front of the list)
PushMesh_Front(st, r) == [ctx |-> r.ctx, meshes |-> <<r.mesh>> \o st.meshes]

\* meshes.push_back(processMesh(...))
PushMesh(st, r) == [ctx |-> r.ctx, meshes |-> Append(st.meshes, r.mesh)]

\* the loop over node->mMeshes; each pass starts from the finished result
\* of the pass before it
ProcessNodeMeshes(st, tabs, scene, node, nodeTransform, files, i) ==
    IF i > Len(scene.nodes[node].mMeshes) \/ st.meshes # st.meshes THEN st
    ELSE ProcessNodeMeshes(
            PushMesh(st, ProcessMesh(st.ctx, tabs,
                                     scene.mMeshes[scene.nodes[node].mMeshes[i] + 1],
                                     scene.mMaterials, nodeTransform, files)),
            tabs, scene, node, nodeTransform, files, i + 1)

\* the loop over node->mChildren
ProcessNodeChildren(st, tabs, scene, node, nodeTransform, files, i) ==
    IF i > Len(scene.nodes[node].mChildren) THEN st
    ELSE ProcessNodeChildren(
            ProcessNode(st, tabs, scene, scene.nodes[node].mChildren[i],
                        nodeTransform, files),
            tabs, scene, node, nodeTransform, files, i + 1)

\* (variant: the local transform is composed on the other side)
NodeTransform_LocalFirst(parentTransform, mTransformation) ==
    MatMul(mTransformation, parentTransform)

\* glm::mat4 nodeTransform = parentTransform * aiMatToGlm(node->mTransformation)
NodeTransform(parentTransform, mTransformation) ==
    MatMul(parentTransform, mTransformation)

ProcessNode(st, tabs, scene, node, parentTransform, files) ==
    ProcessNodeChildren(
      ProcessNodeMeshes(st, tabs, scene, node,
                        NodeTransform(parentTransform, scene.nodes[node].mTransformation),
                        files, 1),
      tabs, scene, node,
      NodeTransform(parentTransform, scene.nodes[node].mTransformation), files, 1)

----------------------------------------------------------------------------
(* model.h: Model::loadModel, the material-JSON part.  An optional JSON    *)
(* member is a sequence: <<>> when absent, <<v>> when present.             *)

None == <<>>
Some(v) == <<v>>

\* the tables of a freshly constructed Model (all vectors empty)
EmptyTables ==
    [imageUris |-> <<>>, imageTransforms |-> <<>>, materialImageRefs |-> <<>>,
     materialBaseColorFactors |-> <<>>, materialMetallicFactors |-> <<>>,
     materialRoughnessFactors |-> <<>>]

\* "UVTransform ut;" followed by the three optional reads
ReadTransform(t) ==
    UVTransform(IF t.offset # None THEN t.offset[1] ELSE UVIdentity.offset,
                IF t.scale # None THEN t.scale[1] ELSE UVIdentity.scale,
                IF t.rotation # None THEN t.rotation[1] ELSE UVIdentity.rotation)

\* imageTransforms[index] = ut, guarded by the range check of the code
StoreTransform(imageTransforms, index, texRef) ==
    IF texRef.transform # None /\ index >= 0 /\ index < Len(imageTransforms)
    THEN [imageTransforms EXCEPT ![index + 1] = ReadTransform(texRef.transform[1])]
    ELSE imageTransforms

\* The body of the loop over j["materials"] for material mi (1-based here),
\* one operator per block of the body, applied in the order of the code.
ReadBaseColorFactor(tabs, mat, mi) ==
    IF mat.baseColorFactor # None
    THEN [tabs EXCEPT !.materialBaseColorFactors[mi] = mat.baseColorFactor[1]]
    ELSE tabs

ReadMetallicFactor(tabs, mat, mi) ==
    IF mat.metallicFactor # None
    THEN [tabs EXCEPT !.materialMetallicFactors[mi] = mat.metallicFactor[1]]
    ELSE tabs

ReadRoughnessFactor(tabs, mat, mi) ==
    IF mat.roughnessFactor # None
    THEN [tabs EXCEPT !.materialRoughnessFactors[mi] = mat.roughnessFactor[1]]
    ELSE tabs

ReadBaseColorTexture(tabs, mat, mi) ==
    IF mat.baseColorTexture # None
    THEN [tabs EXCEPT !.materialImageRefs[mi].baseColor = mat.baseColorTexture[1].index,
                      !.imageTransforms =
                          StoreTransform(@, mat.baseColorTexture[1].index,
                                         mat.baseColorTexture[1])]
    ELSE tabs

ReadMetallicRoughnessTexture(tabs, mat, mi) ==
    IF mat.metallicRoughnessTexture # None
    THEN [tabs EXCEPT !.materialImageRefs[mi].metallicRoughness =
                          mat.metallicRoughnessTexture[1].index]
    ELSE tabs

ReadNormalTexture(tabs, mat, mi) ==
    IF mat.normalTexture # None
    THEN [tabs EXCEPT !.materialImageRefs[mi].normal = mat.normalTexture[1].index,
                      !.imageTransforms =
                          StoreTransform(@, mat.normalTexture[1].index,
                                         mat.normalTexture[1])]
    ELSE tabs

ParseMaterial(tabs, mat, mi) ==
    ReadNormalTexture(
      ReadMetallicRoughnessTexture(
        ReadBaseColorTexture(
          ReadRoughnessFactor(
            ReadMetallicFactor(
              ReadBaseColorFactor(tabs, mat, mi), mat, mi), mat, mi), mat, mi),
        mat, mi), mat, mi)

\* the loop over j["materials"]; a material whose throws flag is set makes
\* the first typed read of its block throw, which ends the whole try block
RECURSIVE ParseMaterials(_, _, _)
ParseMaterials(tabs, materials, mi) ==
    IF mi > Len(materials) THEN tabs
    ELSE IF materials[mi].throws THEN tabs
    ELSE ParseMaterials(ParseMaterial(tabs, materials[mi], mi), materials, mi + 1)

\* the try block: json.status is "ok" when the file reads and parses as
\* JSON, anything else makes "in >> j" throw (or in.good() fail)
\* the "images" block: one uri (empty when absent) and one identity
\* transform per image
ReadImages(tabs, images) ==
    [tabs EXCEPT
       !.imageUris = [i \in 1..Len(images) |->
                         IF images[i] # None THEN images[i][1] ELSE EmptyPath],
       !.imageTransforms = [i \in 1..Len(images) |-> UVIdentity]]

\* the four resize calls of the "materials" block
ResizeMaterialTables(tabs, k) ==
    [tabs EXCEPT
       !.materialImageRefs = [i \in 1..k |-> NoRefs],
       !.materialBaseColorFactors = [i \in 1..k |-> DefaultBaseColor],
       !.materialMetallicFactors = [i \in 1..k |-> DefaultFactor],
       !.materialRoughnessFactors = [i \in 1..k |-> DefaultFactor]]

\* (variant: a throw discards what the try block had stored)
ParseJson_ThrowDiscards(json) ==
    IF json.status # "ok" THEN EmptyTables
    ELSE IF \E k \in 1..Len(json.materials) : json.materials[k].throws
    THEN EmptyTables
    ELSE ParseMaterials(
            ResizeMaterialTables(ReadImages(EmptyTables, json.images),
                                 Len(json.materials)),
            json.materials, 1)

ParseJson(json) ==
    IF json.status # "ok" THEN EmptyTables
    ELSE ParseMaterials(
            ResizeMaterialTables(ReadImages(EmptyTables, json.images),
                                 Len(json.materials)),
            json.materials, 1)

----------------------------------------------------------------------------
(* model.h: Model::Model and Model::loadModel *)

\* the members of a Model before loadModel runs
EmptyModel ==
    [textures_loaded |-> <<>>, meshes |-> <<>>, directory |-> "",
     tabs |-> EmptyTables, importError |-> FALSE]

\* !scene || scene->mFlags & AI_SCENE_FLAGS_INCOMPLETE || !scene->mRootNode
SceneFailed(scene) == scene.status \in {"null", "incomplete", "noroot"}

\* the Model and the GL names after processNode(scene->mRootNode, ...)
ImportedModel(st, asset, tabs) ==
    [model |-> [textures_loaded |-> st.ctx.textures_loaded,
                meshes |-> st.meshes,
                directory |-> asset.directory,
                tabs |-> tabs,
                importError |-> FALSE],
     glctx |-> st.ctx]

\* loadModel after the error check and the try block
ImportScene(glctx, asset, tabs) ==
    ImportedModel(
      ProcessNode([ctx |-> [glctx EXCEPT !.textures_loaded = <<>>], meshes |-> <<>>],
                  tabs, asset.scene, 1, MatIdentity, asset.files),
      asset, tabs)

\* (variant: the error check misses the AI_SCENE_FLAGS_INCOMPLETE flag)
LoadModel_IgnoreIncomplete(glctx, asset) ==
    IF asset.scene.status \in {"null", "noroot"}
    THEN [model |-> [EmptyModel EXCEPT !.importError = TRUE], glctx |-> glctx]
    ELSE ImportScene(glctx, asset, ParseJson(asset.json))

\* glctx carries the GL name counters and the decoder log (see
\* TextureFromFile); the result is the constructed Model and the new glctx
LoadModel(glctx, asset) ==
    IF SceneFailed(asset.scene)
    THEN [model |-> [EmptyModel EXCEPT !.importError = TRUE], glctx |-> glctx]
    ELSE ImportScene(glctx, asset, ParseJson(asset.json))

----------------------------------------------------------------------------
(* Assets: the scene files a Model can be constructed from *)

TexturePaths == {PathA, PathB}

\* a generic material lists, per aiTextureType, the paths of its textures
GenericMaterial(d, s, h, a) ==
    [DIFFUSE |-> d, SPECULAR |-> s, HEIGHT |-> h, AMBIENT |-> a]
NoTextures == GenericMaterial(<<>>, <<>>, <<>>, <<>>)

\* a material of the JSON "materials" array
JsonMaterial(bcf, bct, mrt, nt) ==
    [baseColorFactor |-> bcf, metallicFactor |-> None, roughnessFactor |-> None,
     baseColorTexture |-> bct, metallicRoughnessTexture |-> mrt,
     normalTexture |-> nt, throws |-> FALSE]
TexRef(index) == Some([index |-> index, transform |-> None])
PlainJsonMaterial == JsonMaterial(None, None, None, None)

\* an aiMesh with one vertex at p, using material mi
\* an aiMesh: positions, optional normals and texture coordinates (channel
\* 0), and the tangents and bitangents aiProcess_CalcTangentSpace computed
\* when it has both
AiMesh(verts, normals, uvs, tangents, bitangents, mi) ==
    [mVertices |-> verts, mNormals |-> normals, mTextureCoords |-> uvs,
     mTangents |-> tangents, mBitangents |-> bitangents, mMaterialIndex |-> mi]
UnitX == <<1, 0, 0>>
UnitY == <<0, 1, 0>>
UnitZ == <<0, 0, 1>>

\* an aiMesh with one vertex at p, with all attributes, using material mi
OneVertexMesh(p, mi) ==
    AiMesh(<<p>>, <<<<UnitZ>>>>, <<<<<<0, 0>>>>>>, <<UnitX>>, <<UnitY>>, mi)

\* an aiNode
Node(transform, meshes, children) ==
    [mTransformation |-> transform, mMeshes |-> meshes, mChildren |-> children]

\* a scene the importer rejects: no scene at all ("null"), no root node
\* ("noroot"), or a scene flagged AI_SCENE_FLAGS_INCOMPLETE that still
\* carries a node with a mesh
FailedScene(status) ==
    IF status = "incomplete"
    THEN [status |-> status,
          nodes |-> <<Node(MatIdentity, <<0>>, <<>>)>>,
          mMeshes |-> <<OneVertexMesh(VZero, 0)>>,
          mMaterials |-> <<GenericMaterial(<<PathA>>, <<>>, <<>>, <<>>)>>]
    ELSE [status |-> status, nodes |-> <<>>, mMeshes |-> <<>>, mMaterials |-> <<>>]

FailedAsset(status) ==
    [directory |-> "dir", scene |-> FailedScene(status),
     json |-> [status |-> "ok", images |-> <<Some(PathA)>>,
               materials |-> <<JsonMaterial(None, TexRef(0), None, None)>>],
     files |-> TexturePaths]

----------------------------------------------------------------------------
(* mesh.h: Mesh::Draw.  gl is the GL context: depthMask, depthTest, the    *)
(* active texture unit, the GL_TEXTURE_2D binding of each unit, the bound  *)
(* vertex array.                                                           *)

UNIT_DIFFUSE == 0
UNIT_NORMAL == 1
UNIT_MR == 2
UNIT_HEIGHT == 3

TextureUnits == {UNIT_DIFFUSE, UNIT_NORMAL, UNIT_MR, UNIT_HEIGHT}

\* the unit the render loop binds brdfLUT on: the last of the three
\* glActiveTexture calls of "bind IBL textures once"
UNIT_BRDF == 12

\* glBindTexture(GL_TEXTURE_2D, id): the binding of the active unit; the
\* units followed are those of Mesh::Draw and the unit of the BRDF LUT
GlBindTexture2D(gl, id) ==
    IF gl.activeTexture \in TextureUnits
    THEN [gl EXCEPT !.bound2D[gl.activeTexture] = id]
    ELSE IF gl.activeTexture = UNIT_BRDF
    THEN [gl EXCEPT !.iblUnits.brdf = id]
    ELSE gl

\* glActiveTexture(GL_TEXTURE0 + unit); glBindTexture(GL_TEXTURE_2D, id)
BindTexture2D(gl, unit, id) ==
    GlBindTexture2D([gl EXCEPT !.activeTexture = unit], id)

\* the number of units the error dump of localGlCheck inspects:
\* std::min(maxTex, 8), GL_MAX_COMBINED_TEXTURE_IMAGE_UNITS being at least 8
InspectUnits == 8

\* the check points of Mesh::Draw: the places localGlCheck is called from
GlErrorPoints == {"use", "uniform", "texture", "vao", "ebo", "draw"}

\* the dump of localGlCheck: glActiveTexture on each inspected unit in turn,
\* then "restore active texture" with the value read before the loop
ErrorDump(gl, activeTex) ==
    [[gl EXCEPT !.activeTexture = InspectUnits - 1] EXCEPT !.activeTexture = activeTex]

\* localGlCheck(where): errs is the set of check points at which glGetError
\* reports an error; d.dumped records that a dump ran
LocalGlCheck(d, where, errs) ==
    IF where \in errs
    THEN [d EXCEPT !.gl = ErrorDump(@, @.activeTexture), !.dumped = TRUE]
    ELSE d

\* the body of the loop over the mesh's textures, for texture T; d carries
\* gl and the three has* locals
ConsiderTexture(d, T, errs) ==
    IF T.type = "texture_diffuse" /\ ~d.hasDiffuse
    THEN LocalGlCheck([d EXCEPT !.hasDiffuse = TRUE,
                                !.gl = BindTexture2D(@, UNIT_DIFFUSE, T.id)],
                      "uniform", errs)
    ELSE IF T.type = "texture_normal" /\ ~d.hasNormalMap
    THEN LocalGlCheck([d EXCEPT !.hasNormalMap = TRUE,
                                !.gl = BindTexture2D(@, UNIT_NORMAL, T.id)],
                      "uniform", errs)
    ELSE IF T.type = "texture_metallicRoughness" /\ ~d.hasMetallicRoughness
    THEN LocalGlCheck([d EXCEPT !.hasMetallicRoughness = TRUE,
                                !.gl = BindTexture2D(@, UNIT_MR, T.id)],
                      "uniform", errs)
    ELSE d   \* ignore other textures (specular, height, additional diffs)

\* the loop over the mesh's textures; each iteration ends with
\* localGlCheck("after handling texture ...")
RECURSIVE BindTextures(_, _, _, _)
BindTextures(d, textures, i, errs) ==
    IF i > Len(textures) THEN d
    ELSE BindTextures(LocalGlCheck(ConsiderTexture(d, textures[i], errs),
                                   "texture", errs),
                      textures, i + 1, errs)

\* (variant: the fallback binds the texture but leaves hasDiffuse false)
FallbackTexture_FlagNotSet(d, textures) ==
    IF ~d.hasDiffuse /\ Len(textures) > 0
    THEN [d EXCEPT !.gl = BindTexture2D(@, 0, textures[1].id)]
    ELSE d

\* (variant: the fallback binds on whatever unit is active)
FallbackTexture_OnActiveUnit(d, textures) ==
    IF ~d.hasDiffuse /\ Len(textures) > 0
    THEN [d EXCEPT !.hasDiffuse = TRUE,
                   !.gl = GlBindTexture2D(@, textures[1].id)]
    ELSE d

\* "If no diffuse texture was found, bind the first available texture"
FallbackTexture(d, textures) ==
    IF ~d.hasDiffuse /\ Len(textures) > 0
    THEN [d EXCEPT !.hasDiffuse = TRUE,
                   !.gl = BindTexture2D(@, 0, textures[1].id)]
    ELSE d

\* the has* locals and the GL context at the top of Mesh::Draw; entry keeps
\* the unit and vertex-array state the call found
DrawLocals(gl) ==
    [gl |-> gl, hasDiffuse |-> FALSE, hasNormalMap |-> FALSE,
     hasMetallicRoughness |-> FALSE, dumped |-> FALSE,
     entry |-> [activeTexture |-> gl.activeTexture, vertexArray |-> gl.vertexArray]]

\* glBindVertexArray(VAO) and the explicit glBindBuffer of the EBO, each
\* followed by its localGlCheck
BindForDraw(d, mesh, errs) ==
    LocalGlCheck(LocalGlCheck([d EXCEPT !.gl.vertexArray = mesh.VAO], "vao", errs),
                 "ebo", errs)

\* (variant: Mesh::Draw returns without the final glActiveTexture(GL_TEXTURE0))
EndDraw_NoUnitReset(e, d, mesh) ==
    [gl |-> [e.gl EXCEPT !.vertexArray = 0],
     call |-> [VAO |-> d.gl.vertexArray,
               depthMask |-> d.gl.depthMask,
               depthTest |-> d.gl.depthTest,
               bound2D |-> d.gl.bound2D,
               iblUnits |-> d.gl.iblUnits,
               hasBaseColor |-> d.hasDiffuse,
               hasNormalMap |-> d.hasNormalMap,
               hasMetallicRoughness |-> d.hasMetallicRoughness,
               dumped |-> e.dumped,
               entry |-> d.entry,
               exit |-> [activeTexture |-> e.gl.activeTexture, vertexArray |-> 0],
               model |-> "", idx |-> 0]]

\* The end of Mesh::Draw: glBindVertexArray(0), glActiveTexture(GL_TEXTURE0).
\* d is Mesh::Draw at the glDrawElements call, e after the localGlCheck that
\* follows it.  call is the record of the glDrawElements call: the GL state
\* and the uniforms it was issued under, and the unit and vertex-array
\* state Mesh::Draw found and left.
EndDraw(e, d, mesh) ==
    [gl |-> [e.gl EXCEPT !.vertexArray = 0, !.activeTexture = 0],
     call |-> [VAO |-> d.gl.vertexArray,
               depthMask |-> d.gl.depthMask,
               depthTest |-> d.gl.depthTest,
               bound2D |-> d.gl.bound2D,
               iblUnits |-> d.gl.iblUnits,
               hasBaseColor |-> d.hasDiffuse,
               hasNormalMap |-> d.hasNormalMap,
               hasMetallicRoughness |-> d.hasMetallicRoughness,
               dumped |-> e.dumped,
               entry |-> d.entry,
               exit |-> [activeTexture |-> 0, vertexArray |-> 0],
               model |-> "", idx |-> 0]]

\* glDrawElements and what follows it
IssueDraw(d, mesh, errs) == EndDraw(LocalGlCheck(d, "draw", errs), d, mesh)

\* Mesh::Draw: the result is the GL context on return and the record of the
\* glDrawElements call
MeshDraw(gl, mesh, errs) ==
    IssueDraw(
      BindForDraw(
        FallbackTexture(
          BindTextures(LocalGlCheck(DrawLocals(gl), "use", errs),
                       mesh.textures, 1, errs),
          mesh.textures),
        mesh, errs),
      mesh, errs)

----------------------------------------------------------------------------
(* model.h: Model::Draw *)

\* r after the Mesh::Draw call m of the mesh at position idx
AfterMeshDraw(r, m, idx) ==
    [gl |-> m.gl, calls |-> Append(r.calls, [m.call EXCEPT !.idx = idx])]

\* the first loop: every non-transparent mesh, in index order
\* (idx is the 1-based position of the mesh in the meshes vector)
RECURSIVE DrawOpaque(_, _, _, _)
DrawOpaque(r, meshes, i, errs) ==
    IF i > Len(meshes) THEN r
    ELSE IF ~meshes[i].transparent
    THEN DrawOpaque(AfterMeshDraw(r, MeshDraw(r.gl, meshes[i], errs), i),
                    meshes, i + 1, errs)
    ELSE DrawOpaque(r, meshes, i + 1, errs)

\* float d = glm::length(glm::vec3(modelMatrix * centroid) - cameraPos),
\* kept as its square (see Length2)
CentroidDist(mesh, modelMatrix, cameraPos) ==
    Length2(VSub(MatApply(modelMatrix, mesh.centroid), cameraPos))

\* the second loop: {idx, dist} of every transparent mesh, in index order
RECURSIVE TransparentList(_, _, _, _)
TransparentList(meshes, modelMatrix, cameraPos, i) ==
    IF i > Len(meshes) THEN <<>>
    ELSE (IF meshes[i].transparent
          THEN <<[idx |-> i, dist |-> CentroidDist(meshes[i], modelMatrix, cameraPos)]>>
          ELSE <<>>)
         \o TransparentList(meshes, modelMatrix, cameraPos, i + 1)

\* (variant: the comparator of an ascending sort)
SortComp_Ascending(a, b) == a.dist < b.dist

\* the comparator handed to std::sort: a.dist > b.dist
SortComp(a, b) == a.dist > b.dist

\* std::sort promises a permutation in which no element is ordered (by the
\* comparator) before an earlier one.  It is not a stable sort: the order
\* of elements the comparator does not distinguish is unspecified, so every
\* such permutation is a possible outcome.
SortOutcomes(list) ==
    LET n == Len(list)
        Perms == {f \in [1..n -> 1..n] : \A i, j \in 1..n : i # j => f[i] # f[j]}
    IN  {[i \in 1..n |-> list[f[i]]] : f \in
            {g \in Perms : \A i, j \in 1..n :
                i < j => ~SortComp(list[g[j]], list[g[i]])}}

\* the third loop: the sorted transparent meshes
RECURSIVE DrawTransparent(_, _, _, _, _)
DrawTransparent(r, meshes, sorted, k, errs) ==
    IF k > Len(sorted) THEN r
    ELSE DrawTransparent(
            AfterMeshDraw(r, MeshDraw(r.gl, meshes[sorted[k].idx], errs),
                          sorted[k].idx),
            meshes, sorted, k + 1, errs)

\* glDepthMask(flag)
DepthMask(r, flag) == [r EXCEPT !.gl.depthMask = flag]

\* (variant: the transparent pass is left out)
ModelDraw_OpaqueOnly(gl, meshes, sorted, errs) ==
    DepthMask(
      DepthMask(DrawOpaque([gl |-> gl, calls |-> <<>>], meshes, 1, errs), FALSE),
      TRUE)

\* (variant: the transparent meshes are drawn before the opaque ones)
ModelDraw_TransparentFirst(gl, meshes, sorted, errs) ==
    DrawOpaque(
      DepthMask(
        DrawTransparent(DepthMask([gl |-> gl, calls |-> <<>>], FALSE),
                        meshes, sorted, 1, errs),
        TRUE),
      meshes, 1, errs)

\* (variant: depth writes are not switched back on before returning)
ModelDraw_NoDepthRestore(gl, meshes, sorted, errs) ==
    DrawTransparent(
      DepthMask(DrawOpaque([gl |-> gl, calls |-> <<>>], meshes, 1, errs), FALSE),
      meshes, sorted, 1, errs)

\* sorted is the outcome of std::sort on the transparent list, errs the
\* check points at which glGetError reports an error during this call
ModelDraw(gl, meshes, sorted, errs) ==
    DepthMask(
      DrawTransparent(
        DepthMask(DrawOpaque([gl |-> gl, calls |-> <<>>], meshes, 1, errs), FALSE),
        meshes, sorted, 1, errs),
      TRUE)

----------------------------------------------------------------------------
(* modelLoading.cpp: bounding boxes and placeModel *)

\* FLT_MAX, standing in for the largest coordinate
FltMax == 1000000

Min(a, b) == IF a < b THEN a ELSE b
Max(a, b) == IF a > b THEN a ELSE b

\* all baked vertex positions of a model's meshes
RECURSIVE AllPositions(_)
AllPositions(meshes) ==
    IF meshes = <<>> THEN <<>>
    ELSE [i \in 1..Len(Head(meshes).vertices) |-> Head(meshes).vertices[i].Position]
         \o AllPositions(Tail(meshes))

RECURSIVE BBoxFold(_, _, _)
BBoxFold(box, positions, i) ==
    IF i > Len(positions) THEN box
    ELSE LET v == positions[i]
         IN  BBoxFold([min |-> <<Min(box.min[1], v[1]), Min(box.min[2], v[2]),
                                 Min(box.min[3], v[3])>>,
                       max |-> <<Max(box.max[1], v[1]), Max(box.max[2], v[2]),
                                 Max(box.max[3], v[3])>>],
                      positions, i + 1)

\* the two bounding-box loops of main (carBBoxMin/Max and bboxMin/Max)
BBox(meshes) ==
    BBoxFold([min |-> <<FltMax, FltMax, FltMax>>,
              max |-> <<-FltMax, -FltMax, -FltMax>>],
             AllPositions(meshes), 1)

\* x * 0.5f
Half(x) == x \div 2
VHalf(a) == <<Half(a[1]), Half(a[2]), Half(a[3])>>

\* (variant: the scale is applied first, mm = scale * translate(worldPos) *
\* translate(-center))
PlaceModel_ScaleFirst(m, bboxMinLocal, bboxMaxLocal, worldPos, scale, movable) ==
    [model |-> m, bboxMin |-> bboxMinLocal, bboxMax |-> bboxMaxLocal,
     baseModelMatrix |->
        MatMul(MatMul(MatMul(MatIdentity, Mat(scale, VZero)),
                      Mat(1, worldPos)),
               Mat(1, VScale(-1, VHalf(VAdd(bboxMinLocal, bboxMaxLocal))))),
     movable |-> movable]

\* the placeModel lambda: the PlacedModel it pushes
PlaceModel(m, bboxMinLocal, bboxMaxLocal, worldPos, scale, movable) ==
    [model |-> m, bboxMin |-> bboxMinLocal, bboxMax |-> bboxMaxLocal,
     baseModelMatrix |->
        MatMul(MatMul(MatMul(MatIdentity, Mat(1, worldPos)),      \* glm::translate
                      Mat(scale, VZero)),                         \* glm::scale
               Mat(1, VScale(-1, VHalf(VAdd(bboxMinLocal, bboxMaxLocal))))),
     movable |-> movable]

\* main calls placeModel twice
PlaceCalls == 2

\* the x coordinate of the car's world slot
CarSlotX == 3

\* worldPos of the two placeModel calls: (x, -bboxSize.y * 0.5f, 0)
SlotPosition(x, box) == <<x, -Half(VSub(box.max, box.min)[2]), 0>>

\* placeModel(m, bboxMin, bboxMax, vec3(x, -bboxSize.y * 0.5f, 0)) with the
\* default scale and movable = false
PlaceInSlot(m, box, x) ==
    PlaceModel(m, box.min, box.max, SlotPosition(x, box), 1, FALSE)

----------------------------------------------------------------------------
(* modelLoading.cpp: the environment cubemap and the IBL maps, set up in    *)
(* main between the placement of the models and the render loop.           *)
(* x carries the GL context (gl), the four texture names of main and the   *)
(* log of the stages that ran (ibl), the pending GL error flag (err) and    *)
(* whether the process has exited (exited).  e is the environment of the    *)
(* run: the build flag HAS_TINYEXR, EXR_DISABLE, the outcome of LoadEXR,    *)
(* SINGLE_ERROR_DUMP and the GPU resources whose creation fails.            *)

\* the GPU resources main creates for the environment, in the order of the
\* code: the first six on the EXR path, "face" on the procedural path
GpuResources ==
    {"envCubemap", "hdrTexture", "captureFBO", "envCubemapGPU", "brdfLUT",
     "irradianceMap", "prefilterMap", "face"}

\* unsigned int irradianceMap = 0, prefilterMap = 0, brdfLUTTexture = 0;
\* envCubemap is set by the first glGenTextures
NoIbl ==
    [envCubemap |-> 0, hdrTexture |-> 0, irradianceMap |-> 0, prefilterMap |-> 0,
     brdfLUTTexture |-> 0, exrLoaded |-> FALSE, log |-> <<>>, failedAt |-> -1]

\* the creation of resource what: when the GL cannot create it the call
\* raises a GL error and returns; failedAt keeps the number of stages that
\* had run when the first creation failed
CreateResource(x, what, e) ==
    IF what \in e.gpuFail
    THEN [x EXCEPT !.err = TRUE,
                   !.ibl.failedAt = IF @ = -1 THEN Len(x.ibl.log) ELSE @]
    ELSE x

\* glGenTextures(1, &name) for the named texture of main
GenTexture(x, name) ==
    [x EXCEPT !.ibl[name] = x.gl.nextTex, !.gl.nextTex = @ + 1]

\* glBindTexture(GL_TEXTURE_2D, id) on the active unit; only the units of
\* TextureUnits are tracked
BindActive2D(x, id) == [x EXCEPT !.gl = GlBindTexture2D(@, id)]

\* the draws of one stage of the pipeline have been issued
StageRan(x, stage) == [x EXCEPT !.ibl.log = Append(@, stage)]

\* glCheck(where): the dump loop empties the GL error queue and restores
\* the active texture; with SINGLE_ERROR_DUMP=1 a dump ends in exit(1)
GlCheck(x, e) ==
    IF x.err
    THEN [x EXCEPT !.err = FALSE,
                   !.gl = ErrorDump(@, @.activeTexture),
                   !.exited = e.singleErrorDump]
    ELSE x

\* the debug textured-quad helper: glGenVertexArrays, glGenBuffers
DebugQuad(x) == [x EXCEPT !.gl.nextVAO = @ + 1, !.gl.nextBuf = @ + 1]

\* glGenTextures(1, &envCubemap); glBindTexture(GL_TEXTURE_CUBE_MAP, ...);
\* glCheck("glBindTexture envCubemap")
CreateEnvCubemap(x, e) ==
    GlCheck(CreateResource(GenTexture(x, "envCubemap"), "envCubemap", e), e)

\* the EXR image uploaded as an HDR equirectangular 2D texture
UploadHdr(x, e) ==
    StageRan(
      CreateResource(BindActive2D(GenTexture(x, "hdrTexture"), x.gl.nextTex),
                     "hdrTexture", e),
      "EnvironmentReady")

\* the capture FBO and RBO, the cubemap to render to (a second
\* glGenTextures on envCubemap), the capture shaders and the cube VAO/VBO
CaptureSetup(x, e) ==
    [CreateResource(
        GenTexture(CreateResource(x, "captureFBO", e), "envCubemap"),
        "envCubemapGPU", e)
     EXCEPT !.gl.nextVAO = @ + 1, !.gl.nextBuf = @ + 1, !.gl.vertexArray = 0]

\* "create a 2D BRDF LUT texture", "render BRDF LUT": the quad VAO/VBO,
\* glDrawArrays, glBindVertexArray(0)
RenderBrdfLut(x, e) ==
    [StageRan(
        CreateResource(BindActive2D(GenTexture(x, "brdfLUTTexture"), x.gl.nextTex),
                       "brdfLUT", e),
        "BRDFComplete")
     EXCEPT !.gl.nextVAO = @ + 1, !.gl.nextBuf = @ + 1, !.gl.vertexArray = 0]

\* "create irradiance map": the texture and its six faces
CreateIrradianceMap(x, e) ==
    CreateResource(GenTexture(x, "irradianceMap"), "irradianceMap", e)

\* the VAO the cube draws leave bound: glBindVertexArray(cubeVAO), the
\* cube VAO being the one generated before the quad VAO
CubeDraws(x, cubeVAO) == [x EXCEPT !.gl.vertexArray = cubeVAO]

\* "convert HDR equirectangular to cubemap": unit 0 active, the HDR texture
\* bound on it, six cube draws
ProjectCubemap(x, cubeVAO) ==
    StageRan(
      CubeDraws(BindActive2D([x EXCEPT !.gl.activeTexture = 0], x.ibl.hdrTexture),
                cubeVAO),
      "CubemapProjected")

\* glGenerateMipmap(GL_TEXTURE_CUBE_MAP) on envCubemap
GenerateMips(x) == StageRan(x, "MipsGenerated")

\* "create prefilter cubemap" and the per-mip prefilter draws
Prefilter(x, e, cubeVAO) ==
    StageRan(
      CubeDraws([CreateResource(GenTexture(x, "prefilterMap"), "prefilterMap", e)
                 EXCEPT !.gl.activeTexture = 0],
                cubeVAO),
      "PrefilterComplete")

\* "create irradiance by convoluting the environment map"
ConvolveIrradiance(x, cubeVAO) ==
    StageRan(CubeDraws([x EXCEPT !.gl.activeTexture = 0], cubeVAO),
             "IrradianceConvolved")

\* the body of "if (ret == TINYEXR_SUCCESS && img != nullptr)", in the
\* order of the code; cubeVAO is the name CaptureSetup generates
ExrPipeline(x, e, cubeVAO) ==
    [ConvolveIrradiance(
       Prefilter(
         GenerateMips(
           ProjectCubemap(
             CreateIrradianceMap(
               RenderBrdfLut(CaptureSetup(UploadHdr(x, e), e), e), e),
             cubeVAO)),
         e, cubeVAO),
       cubeVAO)
     EXCEPT !.ibl.exrLoaded = TRUE]

\* const int envSize: the width of a cubemap face in texels (128 in the
\* code, a smaller even number here)
SkyEnvSize == 4

\* float u = (2.0f * (x + 0.5f) / envSize) - 1.0f, in units of 1 / envSize
TexelCoord(x) == 2 * x + 1 - SkyEnvSize

\* (variant: the +Y and -Y cases exchanged)
FaceDirection_YFlipped(face, u, v, one) ==
    CASE face = 0 -> <<one, -v, -u>>
      [] face = 1 -> <<-one, -v, u>>
      [] face = 2 -> <<u, -one, -v>>
      [] face = 3 -> <<u, one, v>>
      [] face = 4 -> <<u, -v, one>>
      [] face = 5 -> <<-u, -v, -one>>

\* switch (face): dir before glm::normalize; one is 1.0f in the units of u
FaceDirection(face, u, v, one) ==
    CASE face = 0 -> <<one, -v, -u>>
      [] face = 1 -> <<-one, -v, u>>
      [] face = 2 -> <<u, one, v>>
      [] face = 3 -> <<u, -one, -v>>
      [] face = 4 -> <<u, -v, one>>
      [] face = 5 -> <<-u, -v, -one>>

\* no direction computed yet for the texel (face, u, v)
PendingTexel(face, u, v) ==
    [face |-> face, u |-> u, v |-> v, dir |-> VZero, computed |-> FALSE]

NoTexel == PendingTexel(0, 0, 0)

\* the body of the loops over y and x up to the switch
TexelDirection(t) ==
    [t EXCEPT !.dir = FaceDirection(t.face, t.u, t.v, SkyEnvSize),
              !.computed = TRUE]

\* the loop over the six faces of the procedural sky: glTexImage2D and
\* glCheck("glTexImage2D procedural face") per face
RECURSIVE ProceduralFaces(_, _, _)
ProceduralFaces(x, e, face) ==
    IF face >= 6 \/ x.exited THEN x
    ELSE ProceduralFaces(GlCheck(CreateResource(x, "face", e), e), e, face + 1)

\* after the faces: glGenerateMipmap and glCheck("glGenerateMipmap envCubemap")
ProceduralMips(x, e) ==
    IF x.exited THEN x
    ELSE GlCheck(StageRan(StageRan(x, "EnvironmentReady"), "MipsGenerated"), e)

\* "if (useProcedural)"
ProceduralSky(x, e) == ProceduralMips(ProceduralFaces(x, e, 0), e)

\* the EXR block is compiled in, not disabled, and LoadEXR succeeds
ExrLoads(e) == e.tinyexr /\ ~e.exrDisabled /\ e.loadEXR

\* from the first glCheck to the render loop
EnvironmentFrom(x, e) ==
    IF x.exited THEN x
    ELSE IF ExrLoads(e) THEN ExrPipeline(x, e, x.gl.nextVAO)
    ELSE ProceduralSky(x, e)

\* main from the debug quad to the render loop
SetupEnvironment(g, e) ==
    EnvironmentFrom(
      CreateEnvCubemap(DebugQuad([gl |-> g, ibl |-> NoIbl, err |-> FALSE,
                                  exited |-> FALSE]), e),
      e)

----------------------------------------------------------------------------
(* The program state *)

VARIABLES
    pc,            \* position of main
    asset,         \* the scene file behind each Model (input, never changes)
    models,        \* the two Model objects: ourModel, CarModel
    gl,            \* the GL context
    decoder,       \* per model: GL names generated, files handed to stbi_load,
                   \* failed loads
    placedModels,  \* std::vector<PlacedModel>
    camera,        \* camera.Position
    carOffset,     \* the runtime offset of movable placements
    drawI,         \* position of the loop over placedModels
    drawLog,       \* the glDrawElements calls of the current frame, in order
    placeArgs,     \* worldPos and scale of the placeModel calls, in order
    sky,           \* the texel of the procedural sky being computed
    controls,      \* controlModeModel, carLocked, showModelControlHelp and the
                   \* static key flags of processInput
    modelDraws,    \* the Model::Draw calls of the current frame, in order,
                   \* with the matrix and the camera position they were given
    ibl            \* envCubemap, irradianceMap, prefilterMap, brdfLUTTexture
                   \* of main, and the log of the IBL stages that ran

vars == <<pc, asset, models, gl, decoder, placedModels, camera, carOffset,
          drawI, drawLog, placeArgs, controls, modelDraws, sky, env, ibl>>

ModelNames == {"ourModel", "CarModel"}

\* GL context on entry to main's model loading: fresh names start at 1,
\* nothing bound, depth writes on (GL default), depth test enabled (main)
InitGL ==
    [nextTex |-> 1, texImage |-> {}, nextVAO |-> 1, nextBuf |-> 1,
     depthMask |-> TRUE, depthTest |-> TRUE,
     activeTexture |-> 0, bound2D |-> [u \in TextureUnits |-> 0],
     vertexArray |-> 0,
     iblUnits |-> [irradiance |-> 0, prefilter |-> 0, brdf |-> 0]]

\* Camera camera(glm::vec3(0.0f, 0.0f, 2.0f))
InitCamera == <<0, 0, 2>>
\* glm::vec3 carOffset = glm::vec3(3.0f, 0.0f, 0.0f)
InitCarOffset == <<3, 0, 0>>

\* positions the input handlers can move the camera to
CameraPositions == {<<0, 0, z>> : z \in (-MaxCam)..MaxCam} \cup {InitCamera}

\* controlModeModel = false, carLocked = true, showModelControlHelp = true;
\* static bool h_was = false, r_was = false, m_was = false, l_was = false
InitControls ==
    [controlModeModel |-> FALSE, carLocked |-> TRUE, showModelControlHelp |-> TRUE,
     h_was |-> FALSE, r_was |-> FALSE, m_was |-> FALSE, l_was |-> FALSE]

\* an environment: HAS_TINYEXR, EXR_DISABLE=1, LoadEXR succeeding,
\* SINGLE_ERROR_DUMP=1, the GPU resources whose creation fails
Environment(tinyexr, exrDisabled, loadEXR, singleErrorDump, gpuFail) ==
    [tinyexr |-> tinyexr, exrDisabled |-> exrDisabled, loadEXR |-> loadEXR,
     singleErrorDump |-> singleErrorDump, gpuFail |-> gpuFail,
     keys |-> {{}}, uninit |-> VZero]

\* the environment e with a user who holds, in each frame, one of the key
\* sets of keys
WithKeys(e, keys) == [e EXCEPT !.keys = keys]

\* the environment e in which default-initialized storage holds v
WithUninit(e, v) == [e EXCEPT !.uninit = v]

\* tinyexr compiled in, the EXR loads, every GPU resource is created
ExrEnvironment == Environment(TRUE, FALSE, TRUE, FALSE, {})

InitEnv(assets, envs) ==
    /\ env \in envs
    /\ ibl = NoIbl
    /\ pc = "loadOurModel"
    /\ asset \in assets
    /\ models = [n \in ModelNames |-> EmptyModel]
    /\ gl = InitGL
    /\ decoder = [n \in ModelNames |->
                    [genTex |-> {}, stbiLoads |-> <<>>, loadErrors |-> <<>>]]
    /\ placedModels = <<>>
    /\ camera = InitCamera
    /\ carOffset = InitCarOffset
    /\ drawI = 0
    /\ drawLog = <<>>
    /\ placeArgs = <<>>
    /\ controls = InitControls
    /\ sky = NoTexel
    /\ modelDraws = <<>>

InitWith(assets) == InitEnv(assets, {ExrEnvironment})

----------------------------------------------------------------------------
(* The steps of main *)

\* the GL names and an empty decoder log, as loadModel finds them
ImportContext ==
    [nextTex |-> gl.nextTex, texImage |-> gl.texImage,
     nextVAO |-> gl.nextVAO, nextBuf |-> gl.nextBuf,
     genTex |-> {}, stbiLoads |-> <<>>, loadErrors |-> <<>>,
     textures_loaded |-> <<>>]

\* the effect of a finished loadModel r on the program state
Installed(name, r) ==
    /\ models' = [models EXCEPT ![name] = r.model]
    /\ gl' = [gl EXCEPT !.nextTex = r.glctx.nextTex,
                        !.texImage = r.glctx.texImage,
                        !.nextVAO = r.glctx.nextVAO,
                        !.nextBuf = r.glctx.nextBuf]
    /\ decoder' = [decoder EXCEPT ![name] =
                      [genTex |-> r.glctx.genTex,
                       stbiLoads |-> r.glctx.stbiLoads,
                       loadErrors |-> r.glctx.loadErrors]]

\* Model name(path): the constructor runs loadModel to completion
Construct(name, from, to) ==
    /\ pc = from
    /\ Installed(name, LoadModel(ImportContext, asset[name]))
    /\ pc' = to
    /\ UNCHANGED <<sky, controls, modelDraws, placeArgs, env, ibl, asset, placedModels, camera, carOffset, drawI, drawLog>>

ConstructOurModel == Construct("ourModel", "loadOurModel", "loadCarModel")
ConstructCarModel == Construct("CarModel", "loadCarModel", "placeOurModel")

\* placedModels.push_back(pm); placeArgs records the worldPos and the scale
\* the lambda was called with
Placed(pm, worldPos, scale) ==
    /\ placedModels' = Append(placedModels, pm)
    /\ placeArgs' = Append(placeArgs, [worldPos |-> worldPos, scale |-> scale])

\* placeModel(ourModel, bboxMin, bboxMax, vec3(0, -bboxSize.y * 0.5f, 0))
PlaceOurModel ==
    /\ pc = "placeOurModel"
    /\ Placed(PlaceInSlot("ourModel", BBox(models["ourModel"].meshes), 0),
              SlotPosition(0, BBox(models["ourModel"].meshes)), 1)
    /\ pc' = "placeCarModel"
    /\ UNCHANGED <<sky, controls, modelDraws, env, ibl, asset, models, gl, decoder, camera, carOffset, drawI, drawLog>>

\* placeModel(CarModel, carBBoxMin, carBBoxMax,
\*            vec3(3.0f, -carBBoxSize.y * 0.5f, 0.0f), 1.0f, false)
PlaceCarModel ==
    /\ pc = "placeCarModel"
    /\ Placed(PlaceInSlot("CarModel", BBox(models["CarModel"].meshes), CarSlotX),
              SlotPosition(CarSlotX, BBox(models["CarModel"].meshes)), 1)
    /\ pc' = "setupEnvironment"
    /\ UNCHANGED <<sky, controls, modelDraws, env, ibl, asset, models, gl, decoder, camera, carOffset, drawI, drawLog>>

\* the effect of the finished environment setup x on the program state:
\* the render loop follows unless glCheck ended the process
EnvironmentSet(x) ==
    /\ gl' = x.gl
    /\ ibl' = x.ibl
    /\ pc' = IF x.exited THEN "exited" ELSE "processInput"

\* main from the debug quad helper to the render loop: the environment
\* cubemap and, when the EXR loads, the IBL maps
SetupIBL ==
    /\ pc = "setupEnvironment"
    /\ EnvironmentSet(SetupEnvironment(gl, env))
    /\ UNCHANGED <<sky, controls, modelDraws, placeArgs, env, asset, models, decoder, placedModels, camera,
                   carOffset, drawI, drawLog>>

\* float moveSpeed = 3.0f * deltaTime, one unit of the model per frame
MoveStep == 1

\* carOffset may leave its initial value by at most this much per axis
MaxCarOffset == 1

\* offset[axis] += by when key is down
MoveOn(offset, keys, key, axis, by) ==
    IF key \in keys THEN [offset EXCEPT ![axis] = @ + by] ELSE offset

\* the six ifs of "arrow keys move the CarModel in model-mode", in order
MoveCar(offset, keys) ==
    MoveOn(MoveOn(MoveOn(MoveOn(MoveOn(MoveOn(offset,
        keys, "UP", 3, -MoveStep),
        keys, "DOWN", 3, MoveStep),
        keys, "LEFT", 1, -MoveStep),
        keys, "RIGHT", 1, MoveStep),
        keys, "PAGE_UP", 2, MoveStep),
        keys, "PAGE_DOWN", 2, -MoveStep)

\* (variant: the lock is not consulted)
ArrowKeys_IgnoreLock(offset, c, keys) ==
    IF c.controlModeModel THEN MoveCar(offset, keys) ELSE offset

\* if (!controlModeModel) {camera} else if (!carLocked) {carOffset}
ArrowKeys(offset, c, keys) ==
    IF c.controlModeModel /\ ~c.carLocked THEN MoveCar(offset, keys) ELSE offset

\* R pressed and not held since the frame before: the offset is reset
ResetKey(offset, c, keys) ==
    IF "R" \in keys /\ ~c.r_was THEN InitCarOffset ELSE offset

\* the flag toggles when the key is pressed and was not the frame before
Toggle(flag, now, was) == IF now /\ ~was THEN ~flag ELSE flag

\* the H, R, M and L blocks of processInput on the flags
ToggleKeys(c, keys) ==
    [controlModeModel |-> Toggle(c.controlModeModel, "M" \in keys, c.m_was),
     carLocked |-> Toggle(c.carLocked, "L" \in keys, c.l_was),
     showModelControlHelp |-> Toggle(c.showModelControlHelp, "H" \in keys, c.h_was),
     h_was |-> "H" \in keys, r_was |-> "R" \in keys,
     m_was |-> "M" \in keys, l_was |-> "L" \in keys]

\* the offset stays within the range the model follows it in
OffsetInRange(offset) ==
    \A axis \in 1..3 :
        /\ offset[axis] - InitCarOffset[axis] <= MaxCarOffset
        /\ InitCarOffset[axis] - offset[axis] <= MaxCarOffset

\* the part of processInput from "Controls:" on, with the keys held
Keyboard(keys) ==
    /\ carOffset' = ResetKey(ArrowKeys(carOffset, controls, keys), controls, keys)
    /\ controls' = ToggleKeys(controls, keys)
    /\ OffsetInRange(carOffset')

\* render loop, processInput(window): the camera keys move the camera, the
\* other keys act on carOffset and the control flags
ProcessInput ==
    /\ pc = "processInput"
    /\ \E c \in CameraPositions : camera' = c
    /\ \E keys \in env.keys : Keyboard(keys)
    /\ pc' = "render"
    /\ UNCHANGED <<sky, modelDraws, placeArgs, env, ibl, asset, models, gl, decoder, placedModels, drawI, drawLog>>

\* "bind IBL textures once": what the render loop binds on the units 10,
\* 11 and 12
IblBindings(i) ==
    [irradiance |-> IF i.irradianceMap # 0 THEN i.irradianceMap ELSE i.envCubemap,
     prefilter |-> IF i.prefilterMap # 0 THEN i.prefilterMap ELSE i.envCubemap,
     brdf |-> i.brdfLUTTexture]

\* render loop: glClear ... up to the loop over placedModels
BeginRender ==
    /\ pc = "render"
    /\ gl' = [gl EXCEPT !.activeTexture = UNIT_BRDF,
                        !.iblUnits = IblBindings(ibl)]
    /\ drawI' = 1
    /\ drawLog' = <<>>
    /\ modelDraws' = <<>>
    /\ pc' = "drawPlaced"
    /\ UNCHANGED <<sky, controls, placeArgs, env, ibl, asset, models, decoder, placedModels, camera, carOffset>>

\* the check points at which the GL reports an error during one
\* Model::Draw: none, the checks of the texture loop, or every check
GlErrorChoices == {{}, {"uniform", "texture"}, GlErrorPoints}

\* (variant: the runtime offset is applied whatever the flag says)
FinalModel_AlwaysOffset(pm) == MatMul(Mat(1, carOffset), pm.baseModelMatrix)

\* finalModel of the render loop for the placed model pm
FinalModel(pm) ==
    IF pm.movable
    THEN MatMul(Mat(1, carOffset), pm.baseModelMatrix)
    ELSE pm.baseModelMatrix

\* the effect of a finished Model::Draw r of model name on the program state
Rendered(name, r) ==
    /\ gl' = r.gl
    /\ drawLog' = drawLog \o
          [k \in 1..Len(r.calls) |-> [r.calls[k] EXCEPT !.model = name]]

\* one iteration of "for (const auto &pm : placedModels)": one Model::Draw
DrawPlaced ==
    /\ pc = "drawPlaced"
    /\ drawI <= Len(placedModels)
    /\ \E sorted \in SortOutcomes(
            TransparentList(models[placedModels[drawI].model].meshes,
                            FinalModel(placedModels[drawI]), camera, 1)),
          errs \in GlErrorChoices :
          Rendered(placedModels[drawI].model,
                   ModelDraw(gl, models[placedModels[drawI].model].meshes,
                             sorted, errs))
    /\ modelDraws' = Append(modelDraws,
           [model |-> placedModels[drawI].model,
            modelMatrix |-> FinalModel(placedModels[drawI]),
            cameraPos |-> camera])
    /\ drawI' = drawI + 1
    /\ UNCHANGED <<sky, controls, placeArgs, env, ibl, pc, asset, models, decoder, placedModels, camera, carOffset>>

\* the loop over placedModels is done: the frame ends, the next one starts
EndFrame ==
    /\ pc = "drawPlaced"
    /\ drawI > Len(placedModels)
    /\ pc' = "processInput"
    /\ drawI' = 0
    /\ drawLog' = <<>>
    /\ modelDraws' = <<>>
    /\ UNCHANGED <<sky, controls, placeArgs, env, ibl, asset, models, gl, decoder, placedModels, camera, carOffset>>

Next ==
    \/ ConstructOurModel
    \/ ConstructCarModel
    \/ PlaceOurModel
    \/ PlaceCarModel
    \/ SetupIBL
    \/ ProcessInput
    \/ BeginRender
    \/ DrawPlaced
    \/ EndFrame

----------------------------------------------------------------------------
(* Asset families: the inputs the specifications range over *)

\* a two-node scene: the root holds the meshes rootMeshes, its only child
\* (translated by childT) holds childMeshes
TwoNodeScene(meshes, materials, rootMeshes, childMeshes, childT) ==
    [status |-> "ok",
     nodes |-> <<Node(MatIdentity, rootMeshes, <<2>>),
                 Node(Mat(1, childT), childMeshes, <<>>)>>,
     mMeshes |-> meshes,
     mMaterials |-> materials]

JsonOk(images, materials) ==
    [status |-> "ok", images |-> images, materials |-> materials]
JsonAbsent == [status |-> "absent", images |-> <<>>, materials |-> <<>>]

\* the car: one opaque mesh with a diffuse texture, or a scene that fails
CarAssets ==
    {[directory |-> "car",
      scene |-> TwoNodeScene(<<OneVertexMesh(<<0, 0, 0>>, 0)>>,
                             <<GenericMaterial(<<PathA>>, <<>>, <<>>, <<>>)>>,
                             <<0>>, <<>>, VZero),
      json |-> JsonAbsent,
      files |-> TexturePaths],
     [FailedAsset("null") EXCEPT !.directory = "car"]}

(* Import family: two meshes with a material each; each material has at   *)
(* most one generic texture and at most one JSON image reference.          *)
ImportGenerics ==
    {NoTextures,
     GenericMaterial(<<PathA>>, <<>>, <<>>, <<>>),
     GenericMaterial(<<PathB>>, <<>>, <<>>, <<>>),
     GenericMaterial(<<>>, <<>>, <<PathA>>, <<>>),
     GenericMaterial(<<>>, <<>>, <<>>, <<PathB>>)}

ImportJsons ==
    {PlainJsonMaterial,
     JsonMaterial(None, TexRef(0), None, None),
     JsonMaterial(None, TexRef(1), None, None),
     JsonMaterial(None, None, TexRef(0), None),
     JsonMaterial(None, None, None, TexRef(0))}

ImportImageLists == {<<Some(PathA), Some(PathB)>>, <<Some(PathA), None>>}

ImportFileSets == {TexturePaths, {PathB}}

ImportAssets ==
    {[directory |-> "our",
      scene |-> TwoNodeScene(<<OneVertexMesh(<<0, 0, 0>>, 0),
                               OneVertexMesh(<<0, 0, 2>>, 1)>>,
                             <<g1, g2>>, <<0>>, <<1>>, <<0, 0, 2>>),
      json |-> JsonOk(imgs, <<j1, j2>>),
      files |-> fs] :
        g1 \in ImportGenerics, g2 \in ImportGenerics,
        j1 \in ImportJsons, j2 \in ImportJsons,
        imgs \in ImportImageLists, fs \in ImportFileSets}
    \cup {[FailedAsset(st) EXCEPT !.directory = "our"] :
            st \in {"null", "incomplete", "noroot"}}

ImportInputs == {[ourModel |-> a, CarModel |-> c] : a \in ImportAssets, c \in CarAssets}

Init == InitWith(ImportInputs)

Spec == Init /\ [][Next]_vars

(* Draw family: three meshes (two on the root, one on the child node),    *)
(* each opaque, transparent by its alpha factor, or transparent by the     *)
(* name of its texture; the vertex positions vary along z.                 *)
HalfAlpha == <<1000, 1000, 1000, 500>>
\* an alpha of 0.999
NearOpaqueAlpha == <<1000, 1000, 1000, 999>>

DrawMaterials ==
    {[generic |-> NoTextures, json |-> PlainJsonMaterial],
     [generic |-> NoTextures, json |-> JsonMaterial(Some(HalfAlpha), None, None, None)],
     [generic |-> GenericMaterial(<<PathGlass>>, <<>>, <<>>, <<>>),
      json |-> PlainJsonMaterial]}

VertexZ == {-2, 0, 2}

DrawCarAssets ==
    CarAssets \cup
    {[directory |-> "car",
      scene |-> TwoNodeScene(<<OneVertexMesh(<<0, 0, 0>>, 0),
                               OneVertexMesh(<<0, 0, 2>>, 1),
                               OneVertexMesh(<<0, 0, 2>>, 2)>>,
                             <<NoTextures, NoTextures, NoTextures>>,
                             <<0, 1>>, <<2>>, VZero),
      json |-> JsonOk(<<>>, <<JsonMaterial(Some(HalfAlpha), None, None, None),
                              PlainJsonMaterial,
                              JsonMaterial(Some(NearOpaqueAlpha), None, None, None)>>),
      files |-> TexturePaths]}

DrawAssets ==
    {[directory |-> "our",
      scene |-> TwoNodeScene(<<OneVertexMesh(<<0, 0, z1>>, 0),
                               OneVertexMesh(<<0, 0, z2>>, 1),
                               OneVertexMesh(<<0, 0, z3>>, 2)>>,
                             <<m1.generic, m2.generic, m3.generic>>,
                             <<0, 1>>, <<2>>, <<0, 0, -2>>),
      json |-> JsonOk(<<>>, <<m1.json, m2.json, m3.json>>),
      files |-> TexturePaths \cup {PathGlass}] :
        z1 \in VertexZ, z2 \in VertexZ, z3 \in VertexZ,
        m1 \in DrawMaterials, m2 \in DrawMaterials, m3 \in DrawMaterials}

DrawInputs == {[ourModel |-> a, CarModel |-> c] : a \in DrawAssets, c \in DrawCarAssets}

InitDraw == InitWith(DrawInputs)

SpecDraw == InitDraw /\ [][Next]_vars

(* Mesh family: one mesh whose material fills every generic slot with up   *)
(* to two textures and has at most one JSON image reference.               *)
SlotLists == {<<>>, <<PathA>>, <<PathB>>, <<PathA, PathB>>, <<PathB, PathA>>}

MeshAssets ==
    {[directory |-> "our",
      scene |-> TwoNodeScene(<<OneVertexMesh(<<0, 0, 0>>, 0)>>,
                             <<GenericMaterial(d, sp, h, a)>>,
                             <<0>>, <<>>, VZero),
      json |-> JsonOk(<<Some(PathA), Some(PathB)>>, <<j>>),
      files |-> TexturePaths] :
        d \in SlotLists, sp \in SlotLists, h \in SlotLists, a \in SlotLists,
        j \in ImportJsons}

\* the car of the mesh family: as CarAssets, or one mesh without textures
MeshCarAssets ==
    CarAssets \cup
    {[directory |-> "car",
      scene |-> TwoNodeScene(<<OneVertexMesh(<<0, 0, 0>>, 0)>>, <<NoTextures>>,
                             <<0>>, <<>>, VZero),
      json |-> JsonAbsent,
      files |-> TexturePaths]}

MeshInputs == {[ourModel |-> a, CarModel |-> c] : a \in MeshAssets, c \in MeshCarAssets}

InitMesh == InitWith(MeshInputs)

SpecMesh == InitMesh /\ [][Next]_vars

(* UV family: two meshes with a material each; the image references of    *)
(* the materials carry KHR_texture_transform extensions or none, and may   *)
(* name the image a generic slot or another reference already names.       *)
TexRefT(index, t) == Some([index |-> index, transform |-> Some(t)])

\* "KHR_texture_transform": {"offset": [1, 0]}
UVShift == [offset |-> Some(<<1, 0>>), scale |-> None, rotation |-> None]
\* "KHR_texture_transform": {"scale": [2, 2], "rotation": 1}
UVZoom == [offset |-> None, scale |-> Some(<<2, 2>>), rotation |-> Some(1)]

UVJsons ==
    {PlainJsonMaterial,
     JsonMaterial(None, TexRef(0), None, None),
     JsonMaterial(None, TexRefT(0, UVShift), None, None),
     JsonMaterial(None, None, None, TexRefT(0, UVZoom)),
     JsonMaterial(None, TexRefT(0, UVShift), None, TexRef(1)),
     JsonMaterial(None, None, TexRefT(1, UVShift), None),
     JsonMaterial(None, TexRefT(0, UVShift), None, TexRefT(0, UVZoom))}

UVGenerics == {NoTextures, GenericMaterial(<<PathA>>, <<>>, <<>>, <<>>)}

UVAssets ==
    {[directory |-> "our",
      scene |-> TwoNodeScene(<<OneVertexMesh(<<0, 0, 0>>, 0),
                               OneVertexMesh(<<0, 0, 2>>, 1)>>,
                             <<g1, g2>>, <<0>>, <<1>>, <<0, 0, 2>>),
      json |-> JsonOk(<<Some(PathA), Some(PathB)>>, <<j1, j2>>),
      files |-> TexturePaths] :
        g1 \in UVGenerics, g2 \in UVGenerics, j1 \in UVJsons, j2 \in UVJsons}

UVInputs == {[ourModel |-> a, CarModel |-> c] : a \in UVAssets, c \in CarAssets}

InitUV == InitWith(UVInputs)

SpecUV == InitUV /\ [][Next]_vars

(* Node family: a chain of three nodes (root, child, grandchild), each    *)
(* with its own scale and translation, that reference two meshes of two    *)
(* vertices; a mesh can be referenced by more than one node.               *)
TwoVertexMesh(p, q, mi) ==
    AiMesh(<<p, q>>, <<<<UnitZ, UnitZ>>>>, <<<<<<0, 0>>, <<2, 0>>>>>>,
           <<UnitX, UnitX>>, <<UnitY, UnitY>>, mi)

ChainScene(rootT, childT, grandT, rootMeshes, childMeshes, grandMeshes) ==
    [status |-> "ok",
     nodes |-> <<Node(rootT, rootMeshes, <<2>>),
                 Node(childT, childMeshes, <<3>>),
                 Node(grandT, grandMeshes, <<>>)>>,
     mMeshes |-> <<TwoVertexMesh(<<2, 0, 0>>, <<0, 4, 0>>, 0),
                   TwoVertexMesh(<<0, 0, 2>>, <<-2, 0, 0>>, 0)>>,
     mMaterials |-> <<NoTextures>>]

RootTransforms == {MatIdentity, Mat(2, <<2, 0, 0>>)}
ChildTransforms == {Mat(1, <<0, 0, 2>>), Mat(2, <<0, 2, 0>>)}
GrandTransforms == {MatIdentity, Mat(2, <<0, 0, -2>>)}

\* the mesh references of the root, the child and the grandchild
NodeMeshLists ==
    {<<<<0>>, <<1>>, <<0>>>>,
     <<<<>>, <<1, 0>>, <<1>>>>,
     <<<<>>, <<0>>, <<0, 1>>>>,
     <<<<0>>, <<>>, <<1>>>>}

NodeAssets ==
    {[directory |-> "our",
      scene |-> ChainScene(rt, ct, gt, ml[1], ml[2], ml[3]),
      json |-> JsonAbsent,
      files |-> TexturePaths] :
        rt \in RootTransforms, ct \in ChildTransforms, gt \in GrandTransforms,
        ml \in NodeMeshLists}

NodeInputs == {[ourModel |-> a, CarModel |-> c] : a \in NodeAssets, c \in CarAssets}

InitNodes == InitWith(NodeInputs)

SpecNodes == InitNodes /\ [][Next]_vars

(* IBL family: the environments main can run in.  The models are two of    *)
(* the node family; the build has tinyexr or not, EXR_DISABLE is set or    *)
(* not, LoadEXR succeeds or not, SINGLE_ERROR_DUMP is set or not, and at   *)
(* most one GPU resource cannot be created.                                *)
IblAssets ==
    {[directory |-> "our",
      scene |-> ChainScene(MatIdentity, Mat(1, <<0, 0, 2>>), gt, <<0>>, <<1>>, <<>>),
      json |-> JsonAbsent,
      files |-> TexturePaths] : gt \in GrandTransforms}

\* ourModel with one mesh whose only texture is a specular map, which
\* Mesh::Draw binds through the fallback alone
SpecularOnlyAsset ==
    [directory |-> "our",
     scene |-> TwoNodeScene(<<OneVertexMesh(<<0, 0, 0>>, 0)>>,
                            <<GenericMaterial(<<>>, <<PathB>>, <<>>, <<>>)>>,
                            <<0>>, <<>>, VZero),
     json |-> JsonAbsent,
     files |-> TexturePaths]

IblInputs ==
    {[ourModel |-> a, CarModel |-> c] :
        a \in IblAssets \cup {SpecularOnlyAsset}, c \in CarAssets}

GpuFailures == {{}} \cup {{what} : what \in GpuResources}

IblEnvironments ==
    {Environment(tinyexr, exrDisabled, loadEXR, singleErrorDump, gpuFail) :
        tinyexr \in BOOLEAN, exrDisabled \in BOOLEAN, loadEXR \in BOOLEAN,
        singleErrorDump \in BOOLEAN, gpuFail \in GpuFailures}

InitIBL == InitEnv(IblInputs, IblEnvironments)

SpecIBL == InitIBL /\ [][Next]_vars

(* Input family: a user who presses the model-control keys, and the two   *)
(* placeModel calls of main made with either value of movable.  The car    *)
(* has two glass meshes on either side of its origin and an opaque one.    *)
InputCarAsset ==
    [directory |-> "car",
     scene |-> TwoNodeScene(<<OneVertexMesh(<<0, 0, -2>>, 0),
                              OneVertexMesh(<<0, 0, 2>>, 0),
                              OneVertexMesh(<<0, 0, 0>>, 1)>>,
                            <<NoTextures, NoTextures>>,
                            <<0, 2>>, <<1>>, VZero),
     json |-> JsonOk(<<>>, <<JsonMaterial(Some(HalfAlpha), None, None, None),
                             PlainJsonMaterial>>),
     files |-> TexturePaths]

InputOurAsset ==
    [directory |-> "our",
     scene |-> TwoNodeScene(<<OneVertexMesh(<<0, 2, 0>>, 0)>>, <<NoTextures>>,
                            <<0>>, <<>>, VZero),
     json |-> JsonAbsent,
     files |-> TexturePaths]

InputInputs == {[ourModel |-> InputOurAsset, CarModel |-> InputCarAsset]}

\* the key sets the user holds during a frame
KeySets ==
    {{}, {"UP"}, {"DOWN", "PAGE_DOWN"}, {"LEFT"}, {"RIGHT", "PAGE_UP"},
     {"M"}, {"L"}, {"R"}, {"R", "RIGHT"}, {"H", "M", "LEFT"}}

\* placeModel(m, bbox, slot, 1.0f, movable) at the place of main's call
PlaceAs(m, x, from, to) ==
    /\ pc = from
    /\ \E movable \in BOOLEAN :
          Placed(PlaceModel(m, BBox(models[m].meshes).min, BBox(models[m].meshes).max,
                            SlotPosition(x, BBox(models[m].meshes)), 1, movable),
                 SlotPosition(x, BBox(models[m].meshes)), 1)
    /\ pc' = to
    /\ UNCHANGED <<sky, controls, modelDraws, env, ibl, asset, models, gl, decoder, camera, carOffset, drawI, drawLog>>

PlaceOurModelAs == PlaceAs("ourModel", 0, "placeOurModel", "placeCarModel")
PlaceCarModelAs == PlaceAs("CarModel", CarSlotX, "placeCarModel", "setupEnvironment")

NextInput ==
    \/ ConstructOurModel
    \/ ConstructCarModel
    \/ PlaceOurModelAs
    \/ PlaceCarModelAs
    \/ SetupIBL
    \/ ProcessInput
    \/ BeginRender
    \/ DrawPlaced
    \/ EndFrame

InitInput == InitEnv(InputInputs, {WithKeys(ExrEnvironment, KeySets)})

SpecInput == InitInput /\ [][NextInput]_vars

(* JSON family: two meshes with a material each; the material JSON is     *)
(* absent, does not parse, or parses with a material whose block throws    *)
(* (the first one, or the second one after the first was stored).          *)
JsonMalformed == [status |-> "malformed", images |-> <<>>, materials |-> <<>>]

Throwing(mat) == [mat EXCEPT !.throws = TRUE]

GlassyJson == JsonMaterial(Some(HalfAlpha), TexRef(1), None, None)
BumpyJson == JsonMaterial(Some(NearOpaqueAlpha), None, None, TexRef(0))

BrokenJsons ==
    {JsonAbsent, JsonMalformed}
    \cup {JsonOk(<<Some(PathA), Some(PathB)>>, <<j1, j2>>) :
            j1 \in {GlassyJson, Throwing(GlassyJson)},
            j2 \in {BumpyJson, Throwing(BumpyJson)}}

JsonGenerics == {NoTextures, GenericMaterial(<<PathA>>, <<>>, <<PathB>>, <<>>)}

JsonAssets ==
    {[directory |-> "our",
      scene |-> TwoNodeScene(<<OneVertexMesh(<<0, 0, 0>>, 0),
                               OneVertexMesh(<<0, 0, 2>>, 1)>>,
                             <<g1, g2>>, <<0>>, <<1, 0>>, <<0, 0, 2>>),
      json |-> j,
      files |-> TexturePaths] :
        g1 \in JsonGenerics, g2 \in JsonGenerics, j \in BrokenJsons}

JsonInputs == {[ourModel |-> a, CarModel |-> c] : a \in JsonAssets, c \in CarAssets}

InitJson == InitWith(JsonInputs)

SpecJson == InitJson /\ [][Next]_vars

(* Sky family: the direction of the procedural sky computed for the       *)
(* texels of every face and for the centre u = 0, v = 0 of every face.     *)
SkyCoords == {TexelCoord(x) : x \in 0..(SkyEnvSize - 1)}

SkyTexels ==
    {PendingTexel(face, u, v) : face \in 0..5, u \in SkyCoords, v \in SkyCoords}
    \cup {PendingTexel(face, 0, 0) : face \in 0..5}

\* one texel of the procedural sky
SkyTexel ==
    /\ ~sky.computed
    /\ sky' = TexelDirection(sky)
    /\ UNCHANGED <<pc, asset, models, gl, decoder, placedModels, camera, carOffset,
                   drawI, drawLog, placeArgs, controls, modelDraws, env, ibl>>

NextSky == SkyTexel

InitSky ==
    /\ sky \in SkyTexels
    /\ pc = "setupEnvironment"
    /\ asset \in IblInputs
    /\ env = ExrEnvironment
    /\ ibl = NoIbl
    /\ models = [n \in ModelNames |-> EmptyModel]
    /\ gl = InitGL
    /\ decoder = [n \in ModelNames |->
                    [genTex |-> {}, stbiLoads |-> <<>>, loadErrors |-> <<>>]]
    /\ placedModels = <<>>
    /\ camera = InitCamera
    /\ carOffset = InitCarOffset
    /\ drawI = 0
    /\ drawLog = <<>>
    /\ placeArgs = <<>>
    /\ controls = InitControls
    /\ modelDraws = <<>>

SpecSky == InitSky /\ [][NextSky]_vars

(* Placement family: the placeModel lambda called with arguments drawn     *)
(* from bounded sets, as often as main calls it.                           *)
PlaceBoxes ==
    {[min |-> mn, max |-> mx] :
        mn \in {<<0, 0, 0>>, <<-2, -4, 2>>}, mx \in {<<2, 2, 2>>, <<4, 0, 6>>}}

PlacePositions == {<<0, 0, 0>>, <<3, -1, 0>>, <<-4, 2, 6>>}

PlaceScales == {1, 2, 3}

\* placeModel(m, bboxMinLocal, bboxMaxLocal, worldPos, scale, movable)
PlaceModelCall ==
    /\ Len(placedModels) < PlaceCalls
    /\ \E m \in ModelNames, box \in PlaceBoxes, worldPos \in PlacePositions,
          scale \in PlaceScales, movable \in BOOLEAN :
          Placed(PlaceModel(m, box.min, box.max, worldPos, scale, movable),
                 worldPos, scale)
    /\ UNCHANGED <<sky, controls, modelDraws, pc, env, ibl, asset, models, gl, decoder, camera, carOffset,
                   drawI, drawLog>>

NextPlace == PlaceModelCall

InitPlace == InitWith(IblInputs)

SpecPlace == InitPlace /\ [][NextPlace]_vars

----------------------------------------------------------------------------
(* Vocabulary of the properties *)

\* the constructor of Model n has returned
Constructed(n) ==
    IF n = "ourModel" THEN pc # "loadOurModel"
    ELSE pc \notin {"loadOurModel", "loadCarModel"}

\* Model n was built from a scene the importer accepted
Imported(n) == Constructed(n) /\ ~SceneFailed(asset[n].scene)

TexturesOf(n, i) == Range(models[n].meshes[i].textures)

\* the Model::Draw call of this frame for model n has returned
Drawn(n) ==
    /\ pc = "drawPlaced"
    /\ \E k \in 1..Len(placedModels) : k < drawI /\ placedModels[k].model = n

\* the glDrawElements calls of this frame issued for model n, in order
CallsOf(n) == SelectSeq(drawLog, LAMBDA c : c.model = n)

\* the matrix the render loop hands to Model::Draw for model n
DrawMatrix(n) == FinalModel(CHOOSE q \in Range(placedModels) : q.model = n)

\* centroid distance of mesh idx of model n, as Model::Draw computes it
DistOf(n, idx) == CentroidDist(models[n].meshes[idx], DrawMatrix(n), camera)

\* the meshes of the scene of model n in the order the import emits them:
\* those of the root node, then those of its child (0-based mesh indices)
EmittedMeshes(n) ==
    asset[n].scene.nodes[1].mMeshes \o asset[n].scene.nodes[2].mMeshes

\* the material index of the i-th emitted mesh of model n
MaterialOf(n, i) == asset[n].scene.mMeshes[EmittedMeshes(n)[i] + 1].mMaterialIndex

\* the material of the i-th emitted mesh in the material JSON: <<>> when
\* the JSON does not describe it
JsonMaterialOf(n, i) ==
    IF asset[n].json.status = "ok" /\ MaterialOf(n, i) < Len(asset[n].json.materials)
    THEN <<asset[n].json.materials[MaterialOf(n, i) + 1]>>
    ELSE <<>>

\* the base-color alpha the asset declares for the i-th emitted mesh of
\* model n, in thousandths; 1000 (opaque) when it declares none
AuthoredAlpha(n, i) ==
    IF JsonMaterialOf(n, i) # <<>> /\ JsonMaterialOf(n, i)[1].baseColorFactor # None
    THEN JsonMaterialOf(n, i)[1].baseColorFactor[1][4]
    ELSE 1000

\* the node whose mChildren lists node k
ParentOf(scene, k) ==
    CHOOSE p \in 1..Len(scene.nodes) : k \in Range(scene.nodes[p].mChildren)

\* the local transforms of the nodes on the path from the root to node k,
\* root first
RECURSIVE PathTransforms(_, _)
PathTransforms(scene, k) ==
    IF k = 1 THEN <<scene.nodes[1].mTransformation>>
    ELSE Append(PathTransforms(scene, ParentOf(scene, k)), scene.nodes[k].mTransformation)

\* p moved through the transforms ts, the last of them applied first
RECURSIVE ApplyChain(_, _)
ApplyChain(ts, p) ==
    IF ts = <<>> THEN p
    ELSE MatApply(Head(ts), ApplyChain(Tail(ts), p))

\* the mesh instances of the scene in the order the import emits them: the
\* meshes of a node, then, child by child, those of its subtree
RECURSIVE InstancesFrom(_, _)
RECURSIVE InstancesOfChildren(_, _, _)
InstancesFrom(scene, k) ==
    [j \in 1..Len(scene.nodes[k].mMeshes) |->
        [node |-> k, mesh |-> scene.nodes[k].mMeshes[j]]]
    \o InstancesOfChildren(scene, k, 1)

InstancesOfChildren(scene, k, c) ==
    IF c > Len(scene.nodes[k].mChildren) THEN <<>>
    ELSE InstancesFrom(scene, scene.nodes[k].mChildren[c])
         \o InstancesOfChildren(scene, k, c + 1)

\* the raw positions of instance inst, each moved once through the chain of
\* its node
ExpectedPositions(scene, inst) ==
    [v \in 1..Len(scene.mMeshes[inst.mesh + 1].mVertices) |->
        ApplyChain(PathTransforms(scene, inst.node),
                   scene.mMeshes[inst.mesh + 1].mVertices[v])]

\* the image references (index, optional transform) the material JSON of
\* the i-th emitted mesh of model n declares
ImageRefsOf(n, i) ==
    IF JsonMaterialOf(n, i) = <<>> THEN {}
    ELSE {r[1] : r \in {ref \in {JsonMaterialOf(n, i)[1].baseColorTexture,
                                 JsonMaterialOf(n, i)[1].normalTexture,
                                 JsonMaterialOf(n, i)[1].metallicRoughnessTexture} :
                          ref # None}}

\* the uri of image index of the material JSON of model n, <<>> when the
\* image is not listed or has no uri
ImageUri(n, index) ==
    IF index + 1 <= Len(asset[n].json.images) /\ asset[n].json.images[index + 1] # None
    THEN asset[n].json.images[index + 1][1]
    ELSE EmptyPath

\* the UV transform a texture of a mesh carries
TextureUV(t) == UVTransform(t.uvOffset, t.uvScale, t.uvRotation)

\* path contains one of the keywords glass, alpha, transp, in any case
HasTransparencyKeyword(path) ==
    \E kw \in {KwGlass, KwAlpha, KwTransp} :
        \E o \in 0..(Len(path) - Len(kw)) :
            \A j \in 1..Len(kw) : ToLower(path[o + j]) = kw[j]

\* mesh i of model n is transparent exactly when its authored alpha is
\* below limit or one of its texture paths has a transparency keyword
TransparentIff(limit) ==
    \A n \in ModelNames : Imported(n) =>
        \A i \in 1..Len(models[n].meshes) :
            models[n].meshes[i].transparent <=>
                \/ AuthoredAlpha(n, i) < limit
                \/ \E t \in TexturesOf(n, i) : HasTransparencyKeyword(t.path)

----------------------------------------------------------------------------
(* Texture registry and decoding *)

\* C1: once a Model is constructed, every texture in a mesh's texture list
\* is also an entry of textures_loaded, and no two entries of
\* textures_loaded have the same path.
C1_RegistryCoversMeshTextures ==
    \A n \in ModelNames : Constructed(n) =>
        /\ \A i \in 1..Len(models[n].meshes) : \A t \in TexturesOf(n, i) :
              \E r \in Range(models[n].textures_loaded) :
                  r.path = t.path /\ r.id = t.id
        /\ \A a, b \in 1..Len(models[n].textures_loaded) :
              a # b => models[n].textures_loaded[a].path #
                       models[n].textures_loaded[b].path

\* C2: two meshes of a model that use different materials and both hold a
\* texture of the same path hold the same GL texture name for it.
C2_SamePathSameHandle ==
    \A n \in ModelNames : Imported(n) =>
        \A i, j \in 1..Len(models[n].meshes) :
            \A t \in TexturesOf(n, i), u \in TexturesOf(n, j) :
                t.path = u.path => t.id = u.id

\* C3: during the import of a model no file is handed to the decoder twice,
\* and the number of GL texture names generated equals the number of
\* distinct requested paths that decode.
C3_DecodeOncePerPath ==
    \A n \in ModelNames : Constructed(n) =>
        LET loads == decoder[n].stbiLoads
        IN  /\ \A a, b \in 1..Len(loads) : a # b => loads[a] # loads[b]
            /\ Cardinality(decoder[n].genTex) =
                   Cardinality(Range(loads) \cap asset[n].files)

\* C4: a texture whose file failed to decode is not bound to any unit when
\* its mesh is drawn, and hasBaseColor is set only when the mesh has a
\* texture that did decode.
C4_FailedDecodeLeavesSlotUnbound ==
    \A k \in 1..Len(drawLog) :
        LET c == drawLog[k]
            textures == TexturesOf(c.model, c.idx)
            failed == {t \in textures : t.path \notin asset[c.model].files}
        IN  /\ \A t \in failed : \A u \in TextureUnits : c.bound2D[u] # t.id
            /\ failed # {} /\ c.hasBaseColor => textures # failed

----------------------------------------------------------------------------
(* Model::Draw: the two passes *)

\* the indices of the meshes with the given transparent flag, ascending
RECURSIVE IndicesWhere(_, _, _)
IndicesWhere(meshes, flag, i) ==
    IF i > Len(meshes) THEN <<>>
    ELSE (IF meshes[i].transparent = flag THEN <<i>> ELSE <<>>)
         \o IndicesWhere(meshes, flag, i + 1)

\* C6: the draw calls of one Model::Draw start with every non-transparent
\* mesh, in registration order; every call after them is for a transparent
\* mesh.
C6_OpaqueFirstInOrder ==
    \A n \in ModelNames : Drawn(n) =>
        LET calls == CallsOf(n)
            meshes == models[n].meshes
            opaque == IndicesWhere(meshes, FALSE, 1)
        IN  /\ Len(calls) >= Len(opaque)
            /\ \A j \in 1..Len(opaque) : calls[j].idx = opaque[j]
            /\ \A j \in (Len(opaque) + 1)..Len(calls) :
                  meshes[calls[j].idx].transparent

\* C6 witness: ourModel has been drawn; its first mesh is transparent and
\* two opaque meshes are registered after it.
C6_Witness ==
    /\ Drawn("ourModel")
    /\ Len(models["ourModel"].meshes) = 3
    /\ models["ourModel"].meshes[1].transparent
    /\ ~models["ourModel"].meshes[2].transparent
    /\ ~models["ourModel"].meshes[3].transparent
    /\ Len(CallsOf("ourModel")) = 3

\* C7: among the draw calls of one Model::Draw, a transparent mesh is never
\* drawn after a transparent mesh that is strictly nearer to the camera.
C7_TransparentBackToFront ==
    \A n \in ModelNames : Drawn(n) =>
        LET calls == CallsOf(n)
            meshes == models[n].meshes
        IN  \A j, k \in 1..Len(calls) :
              (/\ j < k
               /\ meshes[calls[j].idx].transparent
               /\ meshes[calls[k].idx].transparent)
              => DistOf(n, calls[j].idx) >= DistOf(n, calls[k].idx)

\* C7 witness: ourModel has been drawn with three transparent meshes at
\* three different distances, registered nearest first.
C7_Witness ==
    /\ Drawn("ourModel")
    /\ Len(models["ourModel"].meshes) = 3
    /\ \A i \in 1..3 : models["ourModel"].meshes[i].transparent
    /\ DistOf("ourModel", 1) < DistOf("ourModel", 2)
    /\ DistOf("ourModel", 2) < DistOf("ourModel", 3)
    /\ Len(CallsOf("ourModel")) = 3

\* C8: transparent meshes at equal distance from the camera are drawn in
\* registration order.
C8_EqualDistancesKeepOrder ==
    \A n \in ModelNames : Drawn(n) =>
        LET calls == CallsOf(n)
            meshes == models[n].meshes
        IN  \A j, k \in 1..Len(calls) :
              (/\ j < k
               /\ meshes[calls[j].idx].transparent
               /\ meshes[calls[k].idx].transparent
               /\ DistOf(n, calls[j].idx) = DistOf(n, calls[k].idx))
              => calls[j].idx < calls[k].idx

\* C9: every opaque mesh is drawn with depth writes on, every transparent
\* mesh with depth writes off, all with the depth test enabled; between
\* Model::Draw calls depth writes are on and the depth test is enabled.
C9_DepthWriteProtocol ==
    /\ gl.depthMask
    /\ gl.depthTest
    /\ \A k \in 1..Len(drawLog) :
          LET c == drawLog[k]
          IN  /\ c.depthTest
              /\ c.depthMask = ~models[c.model].meshes[c.idx].transparent

\* C9 witness: in one frame ourModel drew a transparent mesh, and CarModel,
\* drawn after it, drew an opaque and a transparent mesh.
C9_Witness ==
    /\ Drawn("ourModel") /\ Drawn("CarModel")
    /\ \E k \in 1..Len(drawLog) :
          /\ drawLog[k].model = "ourModel"
          /\ models["ourModel"].meshes[drawLog[k].idx].transparent
    /\ \E k \in 1..Len(drawLog) :
          /\ drawLog[k].model = "CarModel"
          /\ ~models["CarModel"].meshes[drawLog[k].idx].transparent
    /\ \E k \in 1..Len(drawLog) :
          /\ drawLog[k].model = "CarModel"
          /\ models["CarModel"].meshes[drawLog[k].idx].transparent

----------------------------------------------------------------------------
(* Mesh::Draw: texture units *)

\* position of the first texture of the given type, 0 when there is none
RECURSIVE FirstOfType(_, _, _)
FirstOfType(textures, type, i) ==
    IF i > Len(textures) THEN 0
    ELSE IF textures[i].type = type THEN i
    ELSE FirstOfType(textures, type, i + 1)

\* the documented unit of each semantic kind
KindUnits ==
    {<<"texture_diffuse", 0>>, <<"texture_normal", 1>>,
     <<"texture_metallicRoughness", 2>>, <<"texture_height", 3>>}

\* kinds ku of KindUnits are bound first-match-wins in every draw call
FirstMatchBound(kinds) ==
    \A k \in 1..Len(drawLog) :
        LET c == drawLog[k]
            textures == models[c.model].meshes[c.idx].textures
        IN  \A ku \in kinds :
              LET f == FirstOfType(textures, ku[1], 1)
              IN  f # 0 => c.bound2D[ku[2]] = textures[f].id

\* C10: in every draw call, for each of the four kinds the first texture of
\* that kind in the mesh's list is the one bound to the kind's unit.
C10_FirstOfEachKindBound == FirstMatchBound(KindUnits)

\* C11: a draw call for a mesh whose texture list is non-empty and holds no
\* texture_diffuse texture has the first texture of the list bound at unit
\* 0 and hasBaseColor true; a draw call for a mesh with an empty texture
\* list has hasBaseColor false.
C11_FallbackTexture ==
    \A k \in 1..Len(drawLog) :
        LET c == drawLog[k]
            textures == models[c.model].meshes[c.idx].textures
        IN  /\ (textures # <<>> /\ FirstOfType(textures, "texture_diffuse", 1) = 0)
                => c.bound2D[UNIT_DIFFUSE] = textures[1].id /\ c.hasBaseColor
            /\ textures = <<>> => ~c.hasBaseColor

\* C11 witness: a mesh with two textures, none of them texture_diffuse, was
\* drawn, and so was a mesh without textures.
C11_Witness ==
    /\ \E k \in 1..Len(drawLog) :
          LET textures == models[drawLog[k].model].meshes[drawLog[k].idx].textures
          IN  /\ Len(textures) >= 2
              /\ FirstOfType(textures, "texture_diffuse", 1) = 0
              /\ textures[1].id # textures[2].id
              /\ drawLog[k].hasBaseColor
    /\ \E k \in 1..Len(drawLog) :
          models[drawLog[k].model].meshes[drawLog[k].idx].textures = <<>>

\* C12: every Mesh::Draw call returns with unit 0 active and no vertex
\* array bound, whatever textures the mesh has and whether or not an error
\* dump ran, so every Mesh::Draw call but the first of a frame starts in
\* that state; after the draw calls of a frame the GL context is in it too.
C12_UnitStateResetOnExit ==
    /\ \A k \in 1..Len(drawLog) :
          /\ drawLog[k].exit = [activeTexture |-> 0, vertexArray |-> 0]
          /\ k > 1 => drawLog[k].entry = [activeTexture |-> 0, vertexArray |-> 0]
    /\ drawLog # <<>> => gl.activeTexture = 0 /\ gl.vertexArray = 0

\* C12 witness: the first Mesh::Draw of a frame started with the BRDF unit
\* active, bound a normal map on unit 1 after the base colour and ran an
\* error dump; the next Mesh::Draw, of a mesh without textures, followed.
C12_Witness ==
    /\ Len(drawLog) >= 2
    /\ drawLog[1].entry.activeTexture = UNIT_BRDF
    /\ drawLog[1].dumped
    /\ drawLog[1].hasNormalMap
    /\ LET textures == models[drawLog[1].model].meshes[drawLog[1].idx].textures
       IN  /\ Len(textures) >= 2
           /\ textures[Len(textures)].type = "texture_normal"
           /\ FirstOfType(textures, "texture_normal", 1) = Len(textures)
    /\ models[drawLog[2].model].meshes[drawLog[2].idx].textures = <<>>
    /\ ~drawLog[2].dumped

----------------------------------------------------------------------------
(* Import: material snapshot, UV transforms, baked positions *)

\* C13: after import a mesh is transparent exactly when the
\* base-color alpha of its material is below 1.0 or one of its texture
\* paths contains, in any case, one of the keywords glass, alpha, transp.
C13_TransparentIffAlphaBelowOne == TransparentIff(1000)

\* C14: a texture reference of a material that declares no
\* KHR_texture_transform extension resolves, in the texture list of every
\* mesh using the material, to offset (0,0), scale (1,1), rotation 0,
\* whatever other references to the same image declare.
C14_NoExtensionMeansIdentity ==
    \A n \in ModelNames : Imported(n) =>
        \A i \in 1..Len(models[n].meshes) :
            \A ref \in ImageRefsOf(n, i) :
                (ref.transform = None /\ ImageUri(n, ref.index) # EmptyPath)
                => \A t \in TexturesOf(n, i) :
                       t.path = ImageUri(n, ref.index) => TextureUV(t) = UVIdentity

\* C15: every image reference of a material that declares a
\* KHR_texture_transform extension is, in the texture list of every mesh
\* using the material, a texture of the referenced image that carries the
\* offset, scale and rotation the extension declares.
C15_DeclaredTransformCarried ==
    \A n \in ModelNames : Imported(n) =>
        \A i \in 1..Len(models[n].meshes) :
            \A ref \in ImageRefsOf(n, i) :
                (ref.transform # None /\ ImageUri(n, ref.index) # EmptyPath)
                => \E t \in TexturesOf(n, i) :
                       /\ t.path = ImageUri(n, ref.index)
                       /\ TextureUV(t) = ReadTransform(ref.transform[1])

\* C16: at every moment after the import, also after any number of draws,
\* the model holds one mesh per mesh instance of the scene, in traversal
\* order, and each vertex position of it is the raw position moved once
\* through the local transforms of the nodes from the root to the
\* referencing node, the root's transform outermost.
C16_BakedOnce ==
    \A n \in ModelNames : Imported(n) =>
        LET inst == InstancesFrom(asset[n].scene, 1)
        IN  /\ Len(models[n].meshes) = Len(inst)
            /\ \A i \in 1..Len(inst) :
                  [v \in 1..Len(models[n].meshes[i].vertices) |->
                      models[n].meshes[i].vertices[v].Position]
                  = ExpectedPositions(asset[n].scene, inst[i])

\* C16 witness: ourModel was imported from a chain whose root and child
\* both scale and translate, with a mesh referenced by the root and by the
\* grandchild, and has been drawn at least once since.
C16_Witness ==
    /\ Drawn("ourModel")
    /\ asset["ourModel"].scene.nodes[1].mTransformation = Mat(2, <<2, 0, 0>>)
    /\ asset["ourModel"].scene.nodes[2].mTransformation = Mat(2, <<0, 2, 0>>)
    /\ asset["ourModel"].scene.nodes[3].mTransformation = Mat(2, <<0, 0, -2>>)
    /\ asset["ourModel"].scene.nodes[1].mMeshes = <<0>>
    /\ asset["ourModel"].scene.nodes[3].mMeshes = <<0>>
    /\ Len(models["ourModel"].meshes) = 3
    /\ models["ourModel"].meshes[1].vertices[1].Position = <<6, 0, 0>>
    /\ models["ourModel"].meshes[3].vertices[1].Position = <<18, 4, -8>>


\* vocabulary of the IBL claims
StageOrder ==
    <<"EnvironmentReady", "CubemapProjected", "MipsGenerated",
      "IrradianceConvolved", "PrefilterComplete", "BRDFComplete">>

StageRank(stage) == CHOOSE r \in 1..Len(StageOrder) : StageOrder[r] = stage

\* the setup is over: main is in the render loop
InRenderLoop == pc \in {"processInput", "render", "drawPlaced"}

\* how many times a stage was entered
TimesEntered(stage) == Cardinality({k \in 1..Len(ibl.log) : ibl.log[k] = stage})

\* C17: when the environment comes from the loaded panorama, the stages
\* run in the order EnvironmentReady, CubemapProjected, MipsGenerated,
\* IrradianceConvolved, PrefilterComplete, BRDFComplete: a stage runs only
\* after its predecessor in this list has run.
C17_StagesInSpecOrder ==
    ibl.exrLoaded =>
      \A k \in 1..Len(ibl.log) :
         StageRank(ibl.log[k]) > 1 =>
           \E j \in 1..(k - 1) : ibl.log[j] = StageOrder[StageRank(ibl.log[k]) - 1]

\* C18: once main is in the render loop, BRDFComplete has been entered
\* exactly once, whether the environment came from the panorama or from
\* the procedural sky.
C18_BrdfLutOncePerSetup ==
    InRenderLoop => TimesEntered("BRDFComplete") = 1

\* C19: when the creation of a GPU resource failed during the setup, no
\* stage ran after the failure, the process did not exit, and the render
\* loop runs with irradianceMap, prefilterMap and brdfLUTTexture all zero.
C19_FailureAbortsSetup ==
    ibl.failedAt # -1 =>
      /\ Len(ibl.log) = ibl.failedAt
      /\ pc # "exited"
      /\ ibl.irradianceMap = 0 /\ ibl.prefilterMap = 0 /\ ibl.brdfLUTTexture = 0

\* vocabulary of the placement claim
PlaceOffsets == {<<0, 0, 0>>, <<2, 0, -2>>, <<-1, 3, 1>>, <<0, -4, 0>>}

\* c is the centre of the box: c = (bboxMin + bboxMax) / 2
IsBoxCentre(c, pm) == VScale(2, c) = VAdd(pm.bboxMin, pm.bboxMax)

\* the points the centre of a box of the placement family can fall on
CentrePoints == {<<x, y, z>> : x \in 0..2, y \in -2..1, z \in 1..4}

\* C20: the base transform of every placed model maps the centre of the
\* model's bounding box to the worldPos of the call, and the point at
\* offset d from the centre to worldPos + scale * d.
C20_PlacementTransform ==
    \A k \in 1..Len(placedModels) :
       \A c \in CentrePoints :
          IsBoxCentre(c, placedModels[k]) =>
             /\ MatApply(placedModels[k].baseModelMatrix, c) = placeArgs[k].worldPos
             /\ \A d \in PlaceOffsets :
                   MatApply(placedModels[k].baseModelMatrix, VAdd(c, d))
                     = VAdd(placeArgs[k].worldPos, VScale(placeArgs[k].scale, d))

\* C20 witness: a model with an off-origin box was placed off the origin
\* with scale 3, and its base transform moves the point at offset
\* (2, 0, -2) from the centre (1, -2, 4) to worldPos + (6, 0, -6).
C20_Witness ==
    \E k \in 1..Len(placedModels) :
       /\ placeArgs[k] = [worldPos |-> <<3, -1, 0>>, scale |-> 3]
       /\ placedModels[k].bboxMin = <<-2, -4, 2>>
       /\ placedModels[k].bboxMax = <<4, 0, 6>>
       /\ MatApply(placedModels[k].baseModelMatrix, <<3, -2, 2>>) = <<9, -1, -6>>

\* vocabulary of the draw-time transform claim
ProbePoints == {<<0, 0, 0>>, <<2, 0, -2>>, <<0, 4, 2>>}

\* the runtime offset that applies to the placement pm
RuntimeOffset(pm) == IF pm.movable THEN carOffset ELSE VZero

\* the transparent draw calls of the k-th Model::Draw of the frame, in order
TransparentCallsOf(k) ==
    SelectSeq(drawLog,
              LAMBDA c : c.model = placedModels[k].model /\ ~c.depthMask)

\* distance of the centroid of mesh idx of the k-th placement from the
\* camera, under its base transform moved by the offset that applies
ExpectedDist(k, idx) ==
    Length2(VSub(VAdd(MatApply(placedModels[k].baseModelMatrix,
                               models[placedModels[k].model].meshes[idx].centroid),
                      RuntimeOffset(placedModels[k])),
                 camera))

\* C21: every Model::Draw of the frame is given the base transform of its
\* placement moved by carOffset when the placement is movable and the base
\* transform itself when it is not, and the transparent meshes are drawn
\* back to front under that transform.
C21_EffectiveTransform ==
    \A k \in 1..Len(modelDraws) :
       /\ \A p \in ProbePoints :
             MatApply(modelDraws[k].modelMatrix, p)
               = VAdd(MatApply(placedModels[k].baseModelMatrix, p),
                      RuntimeOffset(placedModels[k]))
       /\ \A i, j \in 1..Len(TransparentCallsOf(k)) :
             i < j => ExpectedDist(k, TransparentCallsOf(k)[i].idx)
                        >= ExpectedDist(k, TransparentCallsOf(k)[j].idx)

\* C21 witness: the car offset has left its initial value, ourModel was
\* drawn as a non-movable placement with its base transform, and the car,
\* movable, was drawn moved by the offset with its two glass meshes sorted.
C21_Witness ==
    /\ carOffset = <<2, 0, 1>>
    /\ Len(modelDraws) = 2
    /\ ~placedModels[1].movable /\ placedModels[2].movable
    /\ modelDraws[1].modelMatrix = placedModels[1].baseModelMatrix
    /\ modelDraws[2].modelMatrix.t = VAdd(placedModels[2].baseModelMatrix.t, <<2, 0, 1>>)
    /\ Len(TransparentCallsOf(2)) = 2
    /\ ExpectedDist(2, TransparentCallsOf(2)[1].idx)
          > ExpectedDist(2, TransparentCallsOf(2)[2].idx)

\* C30: a step changes carOffset only when, on entry to processInput, the
\* control mode is MODEL and the car is unlocked, or when the R key, not
\* held the frame before, resets the offset to (3, 0, 0).
C30_OffsetChangesOnlyWhenUnlocked ==
    [][carOffset' # carOffset =>
         \/ controls.controlModeModel /\ ~controls.carLocked
         \/ carOffset' = <<3, 0, 0>> /\ controls'.r_was /\ ~controls.r_was]_vars

\* C30 witness: the car was moved off its initial offset in model mode,
\* then locked again and the control handed back to the camera; the
\* offset is still the moved one while a frame is being drawn.
C30_Witness ==
    /\ carOffset = <<4, 1, -1>>
    /\ controls.carLocked /\ ~controls.controlModeModel
    /\ ~controls.m_was /\ ~controls.l_was
    /\ pc = "drawPlaced"

\* vocabulary of the sky claim: the axis of each cubemap face and the
\* index of its non-zero component
FaceAxis ==
    [face \in 0..5 |->
        CASE face = 0 -> <<1, 0, 0>>  [] face = 1 -> <<-1, 0, 0>>
          [] face = 2 -> <<0, 1, 0>>  [] face = 3 -> <<0, -1, 0>>
          [] face = 4 -> <<0, 0, 1>>  [] face = 5 -> <<0, 0, -1>>]

MajorAxis(face) == (face \div 2) + 1

\* C22: the direction computed for a texel (before normalization) has the
\* major-axis component of its face equal to +1 or -1 as the face table
\* says, and at u = 0, v = 0 it is the axis of the face; face 2 gives
\* (0, 1, 0) and face 4 gives (0, 0, 1).
C22_FaceDirections ==
    sky.computed =>
      /\ sky.dir[MajorAxis(sky.face)]
            = SkyEnvSize * FaceAxis[sky.face][MajorAxis(sky.face)]
      /\ (sky.u = 0 /\ sky.v = 0) => sky.dir = VScale(SkyEnvSize, FaceAxis[sky.face])
      /\ (sky.u = 0 /\ sky.v = 0 /\ sky.face = 2) => sky.dir = <<0, SkyEnvSize, 0>>
      /\ (sky.u = 0 /\ sky.v = 0 /\ sky.face = 4) => sky.dir = <<0, 0, SkyEnvSize>>

\* C22 witness: the direction at the centre of face 2 has been computed
\* and is the +Y axis.
C22_Witness ==
    /\ sky.computed /\ sky.face = 2 /\ sky.u = 0 /\ sky.v = 0
    /\ sky.dir = <<0, SkyEnvSize, 0>>

\* vocabulary of the IBL binding claim: the texture a unit must hold, the
\* environment cubemap standing in for a map that was never generated
MapOrEnvironment(map) == IF map = 0 THEN ibl.envCubemap ELSE map

IblUnitsBound(units) ==
    /\ units.irradiance = MapOrEnvironment(ibl.irradianceMap)
    /\ units.prefilter = MapOrEnvironment(ibl.prefilterMap)
    /\ units.brdf = ibl.brdfLUTTexture

JsonBroken(n) ==
    \/ asset[n].json.status # "ok"
    \/ \E k \in 1..Len(asset[n].json.materials) : asset[n].json.materials[k].throws

\* the number of materials the try block stored before it ended
StoredMaterials(n) ==
    IF asset[n].json.status # "ok" THEN 0
    ELSE Cardinality({k \in 1..Len(asset[n].json.materials) :
                        \A q \in 1..k : ~asset[n].json.materials[q].throws})

\* the paths the generic material of the i-th emitted mesh lists
GenericPaths(n, i) ==
    UNION {Range(asset[n].scene.mMaterials[MaterialOf(n, i) + 1][slot]) :
             slot \in {"DIFFUSE", "SPECULAR", "HEIGHT", "AMBIENT"}}

\* C24: when the material JSON is absent, malformed or throws midway, the
\* import reports no error and emits one mesh per node mesh reference; a
\* mesh whose material the JSON had stored before the throw carries the
\* stored base-color factor, every other mesh the default factors and
\* exactly the textures of its generic material.
C24_BrokenJsonNeverAborts ==
    \A n \in ModelNames :
       Imported(n) /\ JsonBroken(n) =>
          /\ ~models[n].importError
          /\ Len(models[n].meshes) = Len(EmittedMeshes(n))
          /\ \A i \in 1..Len(models[n].meshes) :
                /\ GenericPaths(n, i) \subseteq {t.path : t \in TexturesOf(n, i)}
                /\ IF MaterialOf(n, i) < StoredMaterials(n)
                   THEN models[n].meshes[i].baseColorFactor[4] = AuthoredAlpha(n, i)
                   ELSE /\ models[n].meshes[i].baseColorFactor = DefaultBaseColor
                        /\ models[n].meshes[i].metallicFactor = DefaultFactor
                        /\ models[n].meshes[i].roughnessFactor = DefaultFactor
                        /\ {t.path : t \in TexturesOf(n, i)} = GenericPaths(n, i)

\* C24 witness: the second material of ourModel threw after the first was
\* stored; the three node mesh references gave three meshes, those of the
\* first material with its alpha 0.5, that of the second with defaults and
\* its generic textures.
C24_Witness ==
    /\ Imported("ourModel")
    /\ asset["ourModel"].json.status = "ok"
    /\ StoredMaterials("ourModel") = 1
    /\ Len(models["ourModel"].meshes) = 3
    /\ models["ourModel"].meshes[1].baseColorFactor = HalfAlpha
    /\ models["ourModel"].meshes[2].baseColorFactor = DefaultBaseColor
    /\ {t.path : t \in TexturesOf("ourModel", 2)} = {PathA, PathB}
    /\ models["ourModel"].meshes[3].baseColorFactor = HalfAlpha

----------------------------------------------------------------------------
(* Vertex family: ourModel has one mesh of two vertices, referenced by     *)
(* the root and by a translated child, that comes with or without normals  *)
(* and texture coordinates; default-initialized storage holds zeros or     *)
(* something else.  A mesh with texture coordinates and no normals is left *)
(* out: Assimp computes no tangents for it and the loop would read         *)
(* mesh->mTangents through a null pointer.                                 *)
StackGarbage == <<7, -3, 5>>
UninitValues == {VZero, StackGarbage}

VertexMeshes ==
    {AiMesh(<<<<2, 0, 0>>, <<0, 4, 0>>>>, <<<<UnitZ, UnitY>>>>,
            <<<<<<0, 0>>, <<2, 4>>>>>>, <<UnitX, UnitX>>, <<UnitY, UnitZ>>, 0),
     AiMesh(<<<<2, 0, 0>>, <<0, 4, 0>>>>, <<<<UnitZ, UnitY>>>>,
            <<>>, <<>>, <<>>, 0),
     AiMesh(<<<<2, 0, 0>>, <<0, 4, 0>>>>, <<>>, <<>>, <<>>, <<>>, 0)}

VertexAssets ==
    {[directory |-> "our",
      scene |-> TwoNodeScene(<<m>>, <<g>>, <<0>>, <<0>>, <<0, 0, 2>>),
      json |-> JsonAbsent,
      files |-> TexturePaths] :
        m \in VertexMeshes, g \in JsonGenerics}

VertexInputs == {[ourModel |-> a, CarModel |-> c] : a \in VertexAssets, c \in CarAssets}

InitVertex ==
    InitEnv(VertexInputs, {WithUninit(ExrEnvironment, v) : v \in UninitValues})

SpecVertex == InitVertex /\ [][Next]_vars

\* the aiMesh the i-th emitted mesh of model n was made from
SourceMesh(n, i) == asset[n].scene.mMeshes[EmittedMeshes(n)[i] + 1]

\* C25: every vertex imported from a mesh without texture coordinates has
\* UV (0,0) and zero tangent and bitangent, and every vertex imported from
\* a mesh without normals has the zero normal.
C25_MissingAttributesZeroed ==
    \A n \in ModelNames :
       Imported(n) =>
          \A i \in 1..Len(models[n].meshes) :
             \A v \in 1..Len(models[n].meshes[i].vertices) :
                /\ SourceMesh(n, i).mTextureCoords = <<>> =>
                      /\ models[n].meshes[i].vertices[v].TexCoords = <<0, 0>>
                      /\ models[n].meshes[i].vertices[v].Tangent = VZero
                      /\ models[n].meshes[i].vertices[v].Bitangent = VZero
                /\ SourceMesh(n, i).mNormals = <<>> =>
                      models[n].meshes[i].vertices[v].Normal = VZero

----------------------------------------------------------------------------
(* Tree family: a root with two children, one of which has a child of its  *)
(* own; the root lists its children in either order, every node has its    *)
(* own transform, and three mesh references are spread over the nodes.     *)
TreeScene(rootT, rootChildren, ml) ==
    [status |-> "ok",
     nodes |-> <<Node(rootT, ml[1], rootChildren),
                 Node(Mat(1, <<0, 0, 2>>), ml[2], <<3>>),
                 Node(Mat(2, <<0, 2, 0>>), ml[3], <<>>),
                 Node(Mat(1, <<4, 0, 0>>), ml[4], <<>>)>>,
     mMeshes |-> <<TwoVertexMesh(<<2, 0, 0>>, <<0, 4, 0>>, 0),
                   TwoVertexMesh(<<0, 0, 2>>, <<-2, 0, 0>>, 0)>>,
     mMaterials |-> <<NoTextures>>]

ChildOrders == {<<2, 4>>, <<4, 2>>}

\* the mesh references of nodes 1 to 4
TreeMeshLists ==
    {<<<<0>>, <<>>, <<1>>, <<0>>>>,
     <<<<>>, <<0, 1>>, <<>>, <<1>>>>,
     <<<<1, 0>>, <<>>, <<0>>, <<>>>>,
     <<<<>>, <<0>>, <<0>>, <<0>>>>}

TreeAssets ==
    {[directory |-> "our",
      scene |-> TreeScene(rt, co, ml),
      json |-> JsonAbsent,
      files |-> TexturePaths] :
        rt \in RootTransforms, co \in ChildOrders, ml \in TreeMeshLists}

TreeInputs == {[ourModel |-> a, CarModel |-> c] : a \in TreeAssets, c \in CarAssets}

InitTree == InitWith(TreeInputs)

SpecTree == InitTree /\ [][Next]_vars

\* the place of node k in its parent's child list
ChildIndex(scene, k) ==
    CHOOSE c \in 1..Len(scene.nodes[ParentOf(scene, k)].mChildren) :
        scene.nodes[ParentOf(scene, k)].mChildren[c] = k

\* the child places on the way from the root to node k
RECURSIVE ChildPath(_, _)
ChildPath(scene, k) ==
    IF k = 1 THEN <<>>
    ELSE Append(ChildPath(scene, ParentOf(scene, k)), ChildIndex(scene, k))

\* path pa comes before path pb in pre-order: pa is a proper prefix of pb
\* (an ancestor), or pa branches off to an earlier child
PathBefore(pa, pb) ==
    \/ Len(pa) < Len(pb) /\ \A i \in 1..Len(pa) : pa[i] = pb[i]
    \/ \E i \in 1..Len(pa) :
          /\ i <= Len(pb)
          /\ pa[i] < pb[i]
          /\ \A j \in 1..(i - 1) : pa[j] = pb[j]

\* the (node, place in the node's mesh list) pairs of a scene
MeshPairs(scene) ==
    UNION {{<<k, j>> : j \in 1..Len(scene.nodes[k].mMeshes)} :
              k \in 1..Len(scene.nodes)}

PairBefore(scene, p, q) ==
    \/ p[1] = q[1] /\ p[2] < q[2]
    \/ p[1] # q[1] /\ PathBefore(ChildPath(scene, p[1]), ChildPath(scene, q[1]))

\* the place of pair p in the depth-first pre-order
PreOrderIndex(scene, p) ==
    1 + Cardinality({q \in MeshPairs(scene) : PairBefore(scene, q, p)})

PositionsOf(n, i) ==
    [v \in 1..Len(models[n].meshes[i].vertices) |->
        models[n].meshes[i].vertices[v].Position]

\* C26: the model has exactly one mesh per (node, mesh reference) pair, and
\* the mesh of each pair sits at the pair's place in the depth-first
\* pre-order: after the earlier references of its node, after every mesh of
\* its ancestors and of the subtrees of earlier siblings.
C26_DepthFirstPreOrder ==
    \A n \in ModelNames :
       Imported(n) =>
          /\ Len(models[n].meshes) = Cardinality(MeshPairs(asset[n].scene))
          /\ \A p \in MeshPairs(asset[n].scene) :
                PositionsOf(n, PreOrderIndex(asset[n].scene, p))
                = ExpectedPositions(asset[n].scene,
                     [node |-> p[1],
                      mesh |-> asset[n].scene.nodes[p[1]].mMeshes[p[2]]])

\* C26 witness: the root lists node 4 before node 2 and mesh 0 is referenced
\* by nodes 2, 3 and 4; the model has three meshes, that of node 4 first,
\* then node 2, then its child node 3.
C26_Witness ==
    /\ Imported("ourModel")
    /\ asset["ourModel"].scene.nodes[1].mChildren = <<4, 2>>
    /\ asset["ourModel"].scene.nodes[1].mTransformation = MatIdentity
    /\ asset["ourModel"].scene.nodes[1].mMeshes = <<>>
    /\ asset["ourModel"].scene.nodes[3].mMeshes = <<0>>
    /\ Len(models["ourModel"].meshes) = 3
    /\ models["ourModel"].meshes[1].vertices[1].Position = <<6, 0, 0>>
    /\ models["ourModel"].meshes[2].vertices[1].Position = <<2, 0, 2>>
    /\ models["ourModel"].meshes[3].vertices[1].Position = <<4, 2, 2>>

\* the draw calls of the Model::Draw of model n that were issued for mesh i
CallsForMesh(n, i) == {j \in 1..Len(CallsOf(n)) : CallsOf(n)[j].idx = i}

\* C27: a Model::Draw issues exactly one indexed draw call per mesh of the
\* model, with that mesh's vertex array bound, whatever the mix of opaque
\* and transparent meshes.
C27_EveryMeshDrawnOnce ==
    \A n \in ModelNames :
       Drawn(n) =>
          /\ Len(CallsOf(n)) = Len(models[n].meshes)
          /\ \A i \in 1..Len(models[n].meshes) :
                /\ Cardinality(CallsForMesh(n, i)) = 1
                /\ \A j \in CallsForMesh(n, i) :
                      CallsOf(n)[j].VAO = models[n].meshes[i].VAO

\* C27 witness: ourModel has been drawn; its meshes are transparent,
\* opaque, transparent, and the three draw calls cover the three meshes.
C27_Witness ==
    /\ Drawn("ourModel")
    /\ Len(models["ourModel"].meshes) = 3
    /\ models["ourModel"].meshes[1].transparent
    /\ ~models["ourModel"].meshes[2].transparent
    /\ models["ourModel"].meshes[3].transparent
    /\ {CallsOf("ourModel")[j].idx : j \in 1..Len(CallsOf("ourModel"))} = {1, 2, 3}

\* the typeName processMesh passes to loadMaterialTextures for each slot
SlotTypeName(slot) ==
    CASE slot = "DIFFUSE" -> "texture_diffuse"
      [] slot = "SPECULAR" -> "texture_specular"
      [] slot = "HEIGHT" -> "texture_normal"
      [] slot = "AMBIENT" -> "texture_height"

\* C28: for every path a mesh's generic material lists in a slot, the mesh
\* holds a texture of that path tagged with the kind of that slot, also
\* when the path was registered earlier under another kind.
C28_TaggedAsReferenced ==
    \A n \in ModelNames :
       Imported(n) =>
          \A i \in 1..Len(models[n].meshes) :
             \A slot \in {"DIFFUSE", "SPECULAR", "HEIGHT", "AMBIENT"} :
                \A path \in Range(asset[n].scene.mMaterials[MaterialOf(n, i) + 1][slot]) :
                   \E t \in TexturesOf(n, i) :
                      t.path = path /\ t.type = SlotTypeName(slot)

\* the mesh drawn by draw call c is transparent
CallTransparent(c) == models[c.model].meshes[c.idx].transparent

====
